---- MODULE Spec2Model ----
(***************************************************************************)
(* Scripts of nf-core-pikavirus:                                           *)
(*   bin/graphs_coverage.py          (script "graphs_coverage")            *)
(*   bin/graphs_coverage_REMODEL.py  (script "REMODEL")                    *)
(*   bin/Download_assemblies.py      (script "Download_assemblies")        *)
(*   bin/generate-html.py            (script "generate-html")              *)
(*                                                                         *)
(* Representation.                                                         *)
(*  - A file name is a sequence of tokens ("abc", ".fna", ".gz", "_vs_",   *)
(*    ".sam"); str.replace(t, "") deletes every occurrence of token t and  *)
(*    str.split("_vs_")[0] keeps the tokens before the first "_vs_".       *)
(*  - A header item is a string; str.lower() is the table Lower.           *)
(*  - A float is an exact rational <<num, den>> in lowest terms; the       *)
(*    FracOnThisDepth column of a histogram row is frac / FracDen.         *)
(*  - x ** 0.5 is [root |-> 1, q |-> r] when x = r * r for a rational r,   *)
(*    and [root |-> 2, q |-> x] (the radicand) otherwise.                  *)
(*  - The weights that calculate_weighted_median adds and compares are     *)
(*    IEEE 754 binary64 values [hi, lo, e].                                *)
(*  - An unbound Python name is a name that is not in the set bound.       *)
(***************************************************************************)
EXTENDS Integers, Sequences, FiniteSets, TLC

VARIABLES
    script,               \* which of the scripts runs
    sheet,                \* the reference sheet file: [headers, data] (lines already split on tabs)
    argv,                 \* sys.argv[4:], the coverage files: [name, rows]
    pc,                   \* "start", "loop", "written", "exited"; "da_..." and "gh_..." in the
                          \* other two scripts
    next_file,            \* index in argv of the next coverage file of the for loop
    bound,                \* the module-level names that have been assigned
    column_index,         \* role -> column index found by the header scan
    species_data_noext,   \* graphs_coverage.py: [species, subspecies, filename_noext] per data line
    zero_coverage,        \* graphs_coverage.py: the flag of lines 146-154
    match_name_coverage,  \* graphs_coverage.py: the id derived from the coverage file name
    species, subspecies, spp,   \* graphs_coverage.py: labels set by the lookup of lines 165-176
    data,                 \* the accumulator: column name -> list
    row_src,              \* history: for each appended gnm entry, [file, contig] it came from
    outputs,              \* what has been written to disk, in order
    stdout,               \* what has been printed, in order
    exit_code,            \* -1 while running, then the process exit status
    error,                \* the uncaught exception or exit that ended the run: [kind, line]
    call, ret,            \* a direct call of one of the scripts' functions and its result
    table,                \* the table file written by to_csv: [columns, rows]; <<>> before
    da,                   \* Download_assemblies.py: its arguments, the NCBI summaries, its names
                          \* and what it has written; <<>> when it is not the script that runs
    report                \* generate-html.py: its arguments, its names and the navigation it
                          \* has written; <<>> when it is not the script that runs

vars == <<script, sheet, argv, pc, next_file, bound, column_index, species_data_noext,
          zero_coverage, match_name_coverage, species, subspecies, spp, data, row_src,
          outputs, stdout, exit_code, error, call, ret, table, da, report>>

-----------------------------------------------------------------------------
(* Bounds of the model *)

\* coverage files on the command line
MaxFiles == 2
\* tokens of a file name in the extension-stripping specification
MaxTokens == 4
\* columns after the first ('#') one of a header line in the header specification
MaxItems == 3
\* rows of a contig group in the statistics specification
MaxRows == 3
\* rows after the genome depth-0 row of a histogram in the threshold specification
MaxFreeRows == 2
MaxLines == 2
MaxTableRows == 2
\* FracOnThisDepth is modelled in units of 1/FracDen
FracDen == 10

-----------------------------------------------------------------------------
(* Sequences *)

Range(s) == {s[i] : i \in 1..Len(s)}

RECURSIVE SeqsUpTo(_, _)
SeqsUpTo(S, n) ==
    IF n = 0 THEN {<<>>}
    ELSE LET shorter == SeqsUpTo(S, n - 1)
         IN  shorter \cup {Append(s, x) : s \in {t \in shorter : Len(t) = n - 1}, x \in S}

\* list.index(x): 0-based position of the first element equal to x
ListIndex(lst, x) ==
    (CHOOSE i \in 1..Len(lst) : lst[i] = x /\ \A j \in 1..(i - 1) : lst[j] # x) - 1

-----------------------------------------------------------------------------
(* Strings *)

\* str.replace(token, "")
Replace(name, token) == SelectSeq(name, LAMBDA t : t # token)

\* str.split(sep)[0]
SplitFirst(name, sep) ==
    IF sep \in Range(name)
    THEN SubSeq(name, 1, ListIndex(name, sep))
    ELSE name

\* str.lower() on the header items of the model
Lower(s) ==
    CASE s = "File_name" -> "file_name"
      [] s = "FILE" -> "file"
      [] s = "Scientific_name" -> "scientific_name"
      [] s = "Species" -> "species"
      [] s = "Intraespecific_name" -> "intraespecific_name"
      [] s = "STRAIN" -> "strain"
      [] s = "Taxid" -> "taxid"
      [] s = "#File_name" -> "#file_name"
      [] s = "# Assembly_accession" -> "# assembly_accession"
      [] s = "# Assemblies chosen" -> "# assemblies chosen"
      [] s = "# Assemblies chosen for the group viral " -> "# assemblies chosen for the group viral "
      [] s = "# Assemblies chosen for the group bacteria " -> "# assemblies chosen for the group bacteria "
      [] s = "# Assemblies chosen for the group fungi " -> "# assemblies chosen for the group fungi "
      [] s = "Species_taxid" -> "species_taxid"
      [] s = "Subspecies_taxid" -> "subspecies_taxid"
      [] s = "Download_URL" -> "download_url"
      [] s = "Assembly_level" -> "assembly_level"
      [] OTHER -> s

file_headers == {"filename", "file_name", "file-name", "file"}
species_name_headers == {"scientific_name", "organism_name", "organism", "species_name", "species"}
subspecies_name_headers == {"intraespecific_name", "subspecies_name", "strain", "subspecies"}

extensions == <<".gz", ".fna">>

Roles == {"file", "species", "subspecies"}

Synonyms(role) ==
    CASE role = "file" -> file_headers
      [] role = "species" -> species_name_headers
      [] role = "subspecies" -> subspecies_name_headers

-----------------------------------------------------------------------------
(* Header column discovery *)

NoColumns == [set |-> {}, idx |-> [r \in Roles |-> 0]]

Assign(found, role, i) ==
    [set |-> found.set \cup {role}, idx |-> [found.idx EXCEPT ![role] = i]]

\* RoleOfItem without .lower(): the header names are compared as they are written
RoleOfItem_CaseSensitive(item) ==
    IF item \in file_headers THEN "file"
    ELSE IF item \in species_name_headers THEN "species"
    ELSE IF item \in subspecies_name_headers THEN "subspecies"
    ELSE "none"

\* the if/elif chain of graphs_coverage.py: file, then species, then subspecies
RoleOfItem(item) ==
    IF Lower(item) \in file_headers THEN "file"
    ELSE IF Lower(item) \in species_name_headers THEN "species"
    ELSE IF Lower(item) \in subspecies_name_headers THEN "subspecies"
    ELSE "none"

\* the if/elif chain of verify_detect_headers: species, then subspecies, then file
RoleOfItemRemodel(item) ==
    IF Lower(item) \in species_name_headers THEN "species"
    ELSE IF Lower(item) \in subspecies_name_headers THEN "subspecies"
    ELSE IF Lower(item) \in file_headers THEN "file"
    ELSE "none"

RECURSIVE ScanItems(_, _, _, _)
ScanItems(scr, single_header, k, found) ==
    IF k > Len(single_header) THEN found
    ELSE LET item == single_header[k]
             role == IF scr = "REMODEL" THEN RoleOfItemRemodel(item) ELSE RoleOfItem(item)
         IN  ScanItems(scr, single_header, k + 1,
                       IF role = "none" THEN found
                       ELSE Assign(found, role, ListIndex(single_header, item)))

RECURSIVE ScanHeaders(_, _, _, _)
ScanHeaders(scr, headers, h, found) ==
    IF h > Len(headers) THEN found
    ELSE ScanHeaders(scr, headers, h + 1, ScanItems(scr, headers[h], 1, found))

NoError == [kind |-> "none", line |-> 0]
Raised(kind, line) == [kind |-> kind, line |-> line]

\* "not x" on a column index
Falsy(found, role) == found.idx[role] = 0

RoleTitle(role) ==
    CASE role = "file" -> "File name"
      [] role = "species" -> "Species name"
      [] role = "subspecies" -> "Subspecies name"

LastLine == "Please consult the reference sheet format, sorry for the inconvenience!"

\* graphs_coverage.py, lines 109-118: [error, stdout] of the check of the three indexes.
\* Reading a name that was never assigned raises NameError at the line that reads it.
CheckColumns(found) ==
    LET order == <<"file", "species", "subspecies">>
        lines == <<110, 112, 114>>
        Unbound(r) == r \notin found.set
        \* the "or" chain of line 109, left to right, short-circuit
        cond == IF Unbound(order[1]) THEN "NameError"
                ELSE IF Falsy(found, order[1]) THEN "true"
                ELSE IF Unbound(order[2]) THEN "NameError"
                ELSE IF Falsy(found, order[2]) THEN "true"
                ELSE IF Unbound(order[3]) THEN "NameError"
                ELSE IF Falsy(found, order[3]) THEN "true"
                ELSE "false"
        Msg(r) == [text |-> "No headers indicating", role |-> RoleTitle(r), valid |-> {}]
        Printed(k) == SelectSeq(SubSeq(order, 1, k), LAMBDA r : Falsy(found, r))
        Said(k) == [i \in 1..Len(Printed(k)) |-> Msg(Printed(k)[i])]
        \* the three ifs of lines 110-115: the first unbound name stops them
        firstUnbound == IF \E k \in 1..3 : Unbound(order[k])
                        THEN CHOOSE k \in 1..3 : Unbound(order[k]) /\ \A j \in 1..(k - 1) : ~Unbound(order[j])
                        ELSE 0
    IN  CASE cond = "false" -> [error |-> NoError, stdout |-> <<>>]
          [] cond = "NameError" -> [error |-> Raised("NameError", 109), stdout |-> <<>>]
          [] OTHER ->
               IF firstUnbound # 0
               THEN [error |-> Raised("NameError", lines[firstUnbound]),
                     stdout |-> Said(firstUnbound - 1)]
               ELSE [error |-> Raised("SystemExit", 118),
                     stdout |-> Said(3) \o <<[text |-> LastLine, role |-> "", valid |-> {}]>>]

\* graphs_coverage_REMODEL.py, verify_detect_headers, lines 91-112: building header_list
\* raises NameError when an index was never assigned; the handler then reads the three
\* names again, and the first unbound one raises again, outside any handler.
CheckColumnsRemodel(found) ==
    LET order == <<"species", "subspecies", "file">>
        lines == <<97, 101, 105>>
        Unbound(r) == r \notin found.set
        Msg(r) == [text |-> "header was not detected", role |-> RoleTitle(r), valid |-> Synonyms(r)]
        Printed(k) == SelectSeq(SubSeq(order, 1, k), LAMBDA r : Falsy(found, r))
        Said(k) == [i \in 1..Len(Printed(k)) |-> Msg(Printed(k)[i])]
        firstUnbound == IF \E k \in 1..3 : Unbound(order[k])
                        THEN CHOOSE k \in 1..3 : Unbound(order[k]) /\ \A j \in 1..(k - 1) : ~Unbound(order[j])
                        ELSE 0
    IN  IF firstUnbound = 0
        THEN [error |-> NoError, stdout |-> <<>>]
        ELSE [error |-> Raised("NameError", lines[firstUnbound]), stdout |-> Said(firstUnbound - 1)]

-----------------------------------------------------------------------------
(* Extension removal *)

\* graphs_coverage.py, lines 127-130 and 162-163: each extension is removed from the
\* result of the previous removal
RECURSIVE StripExtensions(_, _, _)
StripExtensions(extension_list, k, filename_noext) ==
    IF k > Len(extension_list) THEN filename_noext
    ELSE StripExtensions(extension_list, k + 1, Replace(filename_noext, extension_list[k]))

\* MatchName without the loop over the extensions
MatchName_KeepExtensions(coverage_file) ==
    SplitFirst(Replace(coverage_file, ".sam"), "_vs_")

\* graphs_coverage.py, lines 161-163
MatchName(coverage_file) ==
    StripExtensions(extensions, 1, SplitFirst(Replace(coverage_file, ".sam"), "_vs_"))

\* graphs_coverage_REMODEL.py, remove_extension: every pass of the loop starts again from
\* filename, so the value returned is the one of the last pass
remove_extension(extension_list, filename) ==
    Replace(filename, extension_list[Len(extension_list)])

-----------------------------------------------------------------------------
(* Exact arithmetic for the float columns *)

Abs(n) == IF n < 0 THEN -n ELSE n

RECURSIVE GCD(_, _)
GCD(a, b) == IF b = 0 THEN a ELSE GCD(b, a % b)

\* the rational n/d (d > 0) in lowest terms
Q(n, d) == LET g == GCD(Abs(n), d) IN <<n \div g, d \div g>>

QInt(n) == <<n, 1>>

QAdd(a, b) ==
    LET l == (a[2] \div GCD(a[2], b[2])) * b[2]
    IN  Q(a[1] * (l \div a[2]) + b[1] * (l \div b[2]), l)

QSub(a, b) == QAdd(a, <<-b[1], b[2]>>)

QMul(a, b) ==
    LET g1 == GCD(Abs(a[1]), b[2])
        g2 == GCD(Abs(b[1]), a[2])
    IN  IF a[1] = 0 \/ b[1] = 0 THEN <<0, 1>>
        ELSE <<(a[1] \div g1) * (b[1] \div g2), (a[2] \div g2) * (b[2] \div g1)>>

\* a / b for b > 0
QDiv(a, b) == QMul(a, <<b[2], b[1]>>)

QLeq(a, b) == a[1] * b[2] <= b[1] * a[2]

RECURSIVE QSum(_)
QSum(qs) == IF qs = <<>> THEN <<0, 1>> ELSE QAdd(qs[1], QSum(Tail(qs)))

\* floor of the square root of n >= 0, searched in lo..hi
RECURSIVE ISqrtIn(_, _, _)
ISqrtIn(n, lo, hi) ==
    IF lo >= hi THEN lo
    ELSE LET mid == (lo + hi + 1) \div 2
         IN  IF mid * mid <= n THEN ISqrtIn(n, mid, hi) ELSE ISqrtIn(n, lo, mid - 1)

ISqrt(n) == ISqrtIn(n, 0, IF n < 46340 THEN n ELSE 46340)

\* x ** 0.5
Sqrt(x) ==
    LET rn == ISqrt(x[1])
        rd == ISqrt(x[2])
    IN  IF rn * rn = x[1] /\ rd * rd = x[2]
        THEN [root |-> 1, q |-> <<rn, rd>>]
        ELSE [root |-> 2, q |-> x]

-----------------------------------------------------------------------------
(* Histogram rows and the statistics functions *)

\* a row of the histogram: [gnm, covDepth, frac]; its FracOnThisDepth column
FracOnThisDepth(row) == Q(row.frac, FracDen)

covDepth(row) == QInt(row.covDepth)

\* df["covDepth"] and df["FracOnThisDepth"]
Depths(df) == [i \in 1..Len(df) |-> covDepth(df[i])]
Fracs(df) == [i \in 1..Len(df) |-> FracOnThisDepth(df[i])]

\* NpAverage without the division by the sum of the weights
NpAverage_Unnormalized(values, weights) ==
    [error |-> NoError,
     value |-> QSum([i \in 1..Len(values) |-> QMul(values[i], weights[i])])]

\* np.average(values, weights = weights) of line 67 is [error, value]: weights that add
\* up to zero raise ZeroDivisionError ("Weights sum to zero, can't be normalized")
NpAverage(values, weights) ==
    IF QSum(weights) = <<0, 1>>
    THEN [error |-> Raised("ZeroDivisionError", 67), value |-> <<>>]
    ELSE [error |-> NoError,
          value |-> QDiv(QSum([i \in 1..Len(values) |-> QMul(values[i], weights[i])]),
                         QSum(weights))]

\* weighted_avg_and_std(df, "covDepth", "FracOnThisDepth") is [error, value]: an
\* exception of np.average leaves the function, and nothing is returned
weighted_avg_and_std(df) ==
    LET values == Depths(df)
        weights == Fracs(df)
        average == NpAverage(values, weights)
        deviation(i) == QSub(values[i], average.value)
        variance == NpAverage([i \in 1..Len(df) |-> QMul(deviation(i), deviation(i))], weights)
    IN  IF average.error # NoError THEN average
        ELSE IF variance.error # NoError
        THEN [error |-> [variance.error EXCEPT !.line = 68], value |-> <<>>]
        ELSE [error |-> NoError, value |-> <<average.value, Sqrt(variance.value)>>]

(* A float of the median: IEEE 754 binary64, positive or zero. [hi, lo, e] is the value     *)
(* (hi * 2^27 + lo) * 2^e with 2^25 <= hi < 2^26 and lo < 2^27 (a mantissa of 53 bits);     *)
(* zero is [hi |-> 0, lo |-> 0, e |-> 0].                                                  *)

\* n / d = m / k * 2^s with 1/2 <= m / k < 1
RECURSIVE Normalize(_, _, _)
Normalize(n, d, s) ==
    IF n >= d THEN Normalize(n, 2 * d, s + 1)
    ELSE IF 2 * n < d THEN Normalize(2 * n, d, s - 1)
    ELSE [n |-> n, d |-> d, s |-> s]

\* the next count bits of the binary expansion of n / d < 1, after the bits of acc
RECURSIVE Bits(_, _, _, _)
Bits(n, d, count, acc) ==
    IF count = 0 THEN [m |-> acc, r |-> n]
    ELSE IF 2 * n >= d THEN Bits(2 * n - d, d, count - 1, 2 * acc + 1)
    ELSE Bits(2 * n, d, count - 1, 2 * acc)

\* the next float above x
FloatAbove(x) ==
    IF x.lo + 1 < 2^27 THEN [x EXCEPT !.lo = @ + 1]
    ELSE IF x.hi + 1 < 2^26 THEN [hi |-> x.hi + 1, lo |-> 0, e |-> x.e]
    ELSE [hi |-> 2^25, lo |-> 0, e |-> x.e + 1]

\* the float read from the text of n / d: the nearest one, ties to the even mantissa
ToFloat(n, d) ==
    IF n = 0 THEN [hi |-> 0, lo |-> 0, e |-> 0]
    ELSE LET norm == Normalize(n, d, 0)
             high == Bits(norm.n, norm.d, 26, 0)
             low == Bits(high.r, norm.d, 27, 0)
             x == [hi |-> high.m, lo |-> low.m, e |-> norm.s - 53]
         IN  IF 2 * low.r > norm.d \/ (2 * low.r = norm.d /\ low.m % 2 = 1)
             THEN FloatAbove(x) ELSE x

\* x with g, the bit below its mantissa, and s, whether a bit below g is set: shifted
\* right by d bits
RECURSIVE ShiftRight(_, _)
ShiftRight(x, d) ==
    IF d = 0 THEN x
    ELSE IF x.hi = 0 /\ x.lo = 0 THEN [x EXCEPT !.g = 0, !.s = x.s \/ x.g = 1]
    ELSE ShiftRight([hi |-> x.hi \div 2, lo |-> (x.lo \div 2) + (x.hi % 2) * 2^26,
                     g |-> x.lo % 2, s |-> x.s \/ x.g = 1], d - 1)

\* a + b of two floats, rounded to the nearest float, ties to the even mantissa
FloatAdd(a, b) ==
    IF a.hi = 0 THEN b
    ELSE IF b.hi = 0 THEN a
    ELSE LET big == IF a.e >= b.e THEN a ELSE b
             small == IF a.e >= b.e THEN b ELSE a
             shifted == ShiftRight([hi |-> small.hi, lo |-> small.lo, g |-> 0, s |-> FALSE],
                                   big.e - small.e)
             lo == big.lo + shifted.lo
             hi == big.hi + shifted.hi + (lo \div 2^27)
             sum == [hi |-> hi, lo |-> lo % 2^27, g |-> shifted.g, s |-> shifted.s]
             fit == IF hi >= 2^26 THEN ShiftRight(sum, 1) ELSE sum
             x == [hi |-> fit.hi, lo |-> fit.lo, e |-> IF hi >= 2^26 THEN big.e + 1 ELSE big.e]
         IN  IF fit.g = 1 /\ (fit.s \/ fit.lo % 2 = 1) THEN FloatAbove(x) ELSE x

\* a >= b
FloatGeq(a, b) ==
    IF b.hi = 0 THEN TRUE
    ELSE IF a.hi = 0 THEN FALSE
    ELSE \/ a.e > b.e
         \/ a.e = b.e /\ a.hi > b.hi
         \/ a.e = b.e /\ a.hi = b.hi /\ a.lo >= b.lo

\* x * 0.5
FloatHalf(x) == IF x.hi = 0 THEN x ELSE [x EXCEPT !.e = @ - 1]

\* the floats of the column FracOnThisDepth
FloatOf == [frac \in 0..FracDen |-> ToFloat(frac, FracDen)]

\* df[weights].cumsum(): each entry is the entry before plus the weight; sum() of fewer
\* than 8 values adds them in the same order and is the last entry
RECURSIVE FloatCumSum(_, _)
FloatCumSum(weights, sums) ==
    IF Len(sums) = Len(weights) THEN sums
    ELSE FloatCumSum(weights,
                     Append(sums, IF sums = <<>> THEN weights[1]
                                  ELSE FloatAdd(sums[Len(sums)], weights[Len(sums) + 1])))

\* calculate_weighted_median(df, "covDepth", "FracOnThisDepth")
calculate_weighted_median(df) ==
    LET weights == [i \in 1..Len(df) |-> FloatOf[df[i].frac]]
        cumsum == FloatCumSum(weights, <<>>)
        cutoff == FloatHalf(cumsum[Len(cumsum)])
        selected == SelectSeq([i \in 1..Len(df) |-> i], LAMBDA i : FloatGeq(cumsum[i], cutoff))
    IN  df[selected[1]].covDepth

\* MinDepth as the depth of the first row of the group
MinDepth_FirstRow(df) == df[1].covDepth

\* min(df["covDepth"]), max(df["covDepth"])
MinDepth(df) == CHOOSE d \in {df[i].covDepth : i \in 1..Len(df)} : \A i \in 1..Len(df) : d <= df[i].covDepth
MaxDepth(df) == CHOOSE d \in {df[i].covDepth : i \in 1..Len(df)} : \A i \in 1..Len(df) : d >= df[i].covDepth

\* FracAtLeast with <= in place of >=
FracAtLeast_AtMost(df_grouped, threshold) ==
    QSum(Fracs(SelectSeq(df_grouped, LAMBDA row : row.covDepth <= threshold)))

\* FracAtLeast with > in place of >=
FracAtLeast_Strict(df_grouped, threshold) ==
    QSum(Fracs(SelectSeq(df_grouped, LAMBDA row : row.covDepth > threshold)))

\* df_grouped.FracOnThisDepth[(df_grouped["covDepth"] >= threshold)].sum()
FracAtLeast(df_grouped, threshold) ==
    QSum(Fracs(SelectSeq(df_grouped, LAMBDA row : row.covDepth >= threshold)))

\* the order of Python's str comparison on the contig names of the model
NameRank(name) ==
    CASE name = "NC_1" -> 1
      [] name = "genome" -> 2
      [] name = "seq1" -> 3
      [] name = "seq2" -> 4

\* df.groupby("gnm"): the groups in ascending key order, each with its rows in file order
RECURSIVE SortedNames(_)
SortedNames(names) ==
    IF names = {} THEN <<>>
    ELSE LET first == CHOOSE n \in names : \A m \in names : NameRank(n) <= NameRank(m)
         IN  <<first>> \o SortedNames(names \ {first})

GroupBy(df) ==
    LET keys == SortedNames({df[i].gnm : i \in 1..Len(df)})
    IN  [k \in 1..Len(keys) |-> [name |-> keys[k],
                                 df_grouped |-> SelectSeq(df, LAMBDA row : row.gnm = keys[k])]]

-----------------------------------------------------------------------------
(* The accumulator and the files written *)

ColumnsOf(scr) ==
    IF scr = "REMODEL"
    THEN {"gnm", "species", "subspecies", "covMean", "covSD", "covMin", "covMax", "covMedian",
          ">=x1", ">=x10", ">=x25", ">=x50", ">=x75", ">=x100", "assembly"}
    ELSE {"gnm", "species", "subspecies", "covMean", "covSD", "covMin", "covMax", "covMedian",
          ">=x1", ">=x50", ">=x100"}

EmptyData(scr) == [c \in ColumnsOf(scr) |-> <<>>]

\* the keys of the dict in the order of the literal, which is the order of the columns
\* of pd.DataFrame.from_dict(data) and of the table to_csv writes
ColumnOrder(scr) ==
    IF scr = "REMODEL"
    THEN <<"gnm", "species", "subspecies", "covMean", "covSD", "covMin", "covMax", "covMedian",
           ">=x1", ">=x10", ">=x25", ">=x50", ">=x75", ">=x100", "assembly">>
    ELSE <<"gnm", "species", "subspecies", "covMean", "covSD", "covMin", "covMax", "covMedian",
           ">=x1", ">=x50", ">=x100">>

\* pd.DataFrame.from_dict(d).to_csv(...): one line per entry of the lists, the values in
\* the order of the columns
TableOf(scr, d) ==
    LET columns == ColumnOrder(scr)
    IN  [columns |-> columns,
         rows |-> [k \in 1..Len(d["gnm"]) |-> [j \in 1..Len(columns) |-> d[columns[j]][k]]]]

sample_name == "S1"
type_of_organism == "virus"

\* .replace(" ", "_").replace("/", "-")
SafeName(name) ==
    [i \in 1..Len(name) |-> IF name[i] = " " THEN "_" ELSE IF name[i] = "/" THEN "-" ELSE name[i]]

Written(kind, name) == [kind |-> kind, name |-> name]

\* f"{species} {subspecies}" or f"{species}"
SppOf(sp, sub) == IF sub # <<>> THEN sp \o <<" ">> \o sub ELSE sp

-----------------------------------------------------------------------------
(* graphs_coverage.py: one pass of the loop over the coverage files *)

\* ZeroCoverageScan with line[4] compared to 1 without float(): a str never equals 1
ZeroCoverageScan_NoFloat(infiledata) ==
    LET hits == SelectSeq(infiledata, LAMBDA line : line.gnm = "genome" /\ line.covDepth = 0)
    IN  [assigned |-> hits # <<>>, value |-> FALSE]

\* lines 146-154: the first row of contig "genome" at depth 0 decides; without such a
\* row the name zero_coverage is left as it was
ZeroCoverageScan(infiledata) ==
    LET hits == SelectSeq(infiledata, LAMBDA line : line.gnm = "genome" /\ line.covDepth = 0)
    IN  IF hits = <<>> THEN [assigned |-> FALSE, value |-> FALSE]
        ELSE [assigned |-> TRUE, value |-> (FracOnThisDepth(hits[1]) = <<1, 1>>)]

\* the keys of dict_for_boxplot, in the order of their first row (lines 182-187)
RECURSIVE FirstSeen(_, _)
FirstSeen(infiledata, seen) ==
    IF infiledata = <<>> THEN seen
    ELSE FirstSeen(Tail(infiledata),
                   IF Head(infiledata).gnm \in Range(seen) THEN seen
                   ELSE Append(seen, Head(infiledata).gnm))

\* lines 178-226: the box plots of one matching reference line, [error, plots]; for a
\* file without any line the figure of line 224 has no trace, plotly.offline.plot raises
\* PlotlyEmptyDataError and writes no file
BoxPlots(infiledata, label) ==
    LET keys == FirstSeen(infiledata, <<>>)
    IN  IF keys = <<>>
        THEN [error |-> Raised("PlotlyEmptyDataError", 224), plots |-> <<>>]
        ELSE [error |-> NoError,
              plots |-> [k \in 1..Len(keys) |->
                            Written("single_boxplot",
                                    SafeName(<<sample_name, "_">> \o label \o <<"_", keys[k]>>))]
                        \o <<Written("full_boxplot", SafeName(<<sample_name, "_">> \o label))>>]

\* Lookup without lines 174-175: an empty subspecies is kept as it is
RECURSIVE Lookup_NoSentinel(_, _, _, _, _)
Lookup_NoSentinel(noext, k, id, infiledata, labels) ==
    IF k > Len(noext) THEN labels
    ELSE LET name == noext[k]
             label == SppOf(name[1], name[2])
             boxes == BoxPlots(infiledata, label)
             found == [assigned |-> TRUE, species |-> name[1], subspecies |-> name[2],
                       spp |-> label, plots |-> labels.plots \o boxes.plots,
                       error |-> boxes.error]
         IN  IF name[3] # id THEN Lookup_NoSentinel(noext, k + 1, id, infiledata, labels)
             ELSE IF boxes.error # NoError THEN found
             ELSE Lookup_NoSentinel(noext, k + 1, id, infiledata, found)

\* lines 165-226: every reference line whose name equals the id assigns the labels and
\* writes its box plots, until an exception of line 224 ends the loop;
\* labels = [assigned, species, subspecies, spp, plots, error]
RECURSIVE Lookup(_, _, _, _, _)
Lookup(noext, k, id, infiledata, labels) ==
    IF k > Len(noext) THEN labels
    ELSE LET name == noext[k]
             sub == IF name[2] # <<>> THEN name[2] ELSE <<"--">>
             label == SppOf(name[1], name[2])
             boxes == BoxPlots(infiledata, label)
             found == [assigned |-> TRUE, species |-> name[1], subspecies |-> sub,
                       spp |-> label, plots |-> labels.plots \o boxes.plots,
                       error |-> boxes.error]
         IN  IF name[3] # id THEN Lookup(noext, k + 1, id, infiledata, labels)
             ELSE IF boxes.error # NoError THEN found
             ELSE Lookup(noext, k + 1, id, infiledata, found)

\* lines 240-260: the values appended for one group whose weights do not add up to zero
RowOf(name, df_grouped, sp, sub, label) ==
    LET stats == weighted_avg_and_std(df_grouped).value
    IN  [c \in ColumnsOf("graphs_coverage") |->
            CASE c = "gnm" -> IF name = "genome" THEN label \o <<" ", "genome">> ELSE <<name>>
              [] c = "species" -> sp
              [] c = "subspecies" -> sub
              [] c = "covMean" -> stats[1]
              [] c = "covSD" -> stats[2]
              [] c = "covMin" -> MinDepth(df_grouped)
              [] c = "covMax" -> MaxDepth(df_grouped)
              [] c = "covMedian" -> calculate_weighted_median(df_grouped)
              [] c = ">=x1" -> FracAtLeast(df_grouped, 1)
              [] c = ">=x50" -> FracAtLeast(df_grouped, 50)
              [] c = ">=x100" -> FracAtLeast(df_grouped, 100)]

\* AppendRow without the append of line 256
AppendRow_NoCovSD(d, row) ==
    [c \in DOMAIN d |-> IF c = "covSD" THEN d[c] ELSE Append(d[c], row[c])]

AppendRow(d, row) == [c \in DOMAIN d |-> Append(d[c], row[c])]

\* lines 262-275: the line plot of one group
LinePlot(name, label) ==
    Written("lineplot", SafeName(<<sample_name, "_">> \o label \o <<"_", name>>))

\* lines 238-275: the loop over the groups, when the labels are assigned; the exception
\* of line 240 ends it, after the rows and the line plots of the groups before
RECURSIVE AppendGroups(_, _, _, _)
AppendGroups(groups, k, fileno, acc) ==
    IF k > Len(groups) THEN acc
    ELSE LET g == groups[k]
             raised == weighted_avg_and_std(g.df_grouped).error
         IN  IF raised # NoError THEN [acc EXCEPT !.error = raised]
             ELSE AppendGroups(groups, k + 1, fileno,
                      [data |-> AppendRow(acc.data, RowOf(g.name, g.df_grouped, acc.species, acc.subspecies, acc.spp)),
                       row_src |-> Append(acc.row_src, [file |-> fileno, contig |-> g.name]),
                       outputs |-> Append(acc.outputs, LinePlot(g.name, acc.spp)),
                       species |-> acc.species, subspecies |-> acc.subspecies, spp |-> acc.spp,
                       error |-> NoError])

-----------------------------------------------------------------------------
(* The run of a script *)

IndexName(role) ==
    CASE role = "file" -> "file_column_index"
      [] role = "species" -> "species_column_index"
      [] role = "subspecies" -> "subspecies_column_index"

NoCall == [fn |-> "none", arg |-> <<>>]

\* nothing is written or printed yet
Fresh ==
    /\ next_file = 1
    /\ column_index = NoColumns.idx
    /\ species_data_noext = <<>>
    /\ zero_coverage = FALSE
    /\ match_name_coverage = <<>>
    /\ species = <<>>
    /\ subspecies = <<>>
    /\ spp = <<>>
    /\ row_src = <<>>
    /\ outputs = <<>>
    /\ stdout = <<>>
    /\ exit_code = -1
    /\ error = NoError
    /\ ret = <<>>
    /\ table = <<>>

\* the state when the interpreter starts the script on one command line
InitRun(inputs) ==
    /\ \E in \in inputs :
          /\ script = in.script
          /\ sheet = in.sheet
          /\ argv = in.argv
    /\ pc = "start"
    /\ data = EmptyData(script)
    /\ call = NoCall
    /\ da = <<>>
    /\ report = <<>>
    /\ Fresh
    /\ bound = {}

\* the state before one of the functions of the scripts is called on an argument
InitCall(args) ==
    /\ \E a \in args : call = [fn |-> "none", arg |-> a]
    /\ script = "none"
    /\ sheet = [headers |-> <<>>, data |-> <<>>]
    /\ argv = <<>>
    /\ pc = "call"
    /\ data = EmptyData("graphs_coverage")
    /\ da = <<>>
    /\ report = <<>>
    /\ Fresh
    /\ bound = {}

\* an uncaught exception, or sys.exit(1): the interpreter exits with status 1
Die(err) ==
    /\ pc' = "exited"
    /\ exit_code' = 1
    /\ error' = err

\* graphs_coverage.py lines 80-137; graphs_coverage_REMODEL.py lines 182-231
Setup ==
    /\ pc = "start"
    /\ LET found == ScanHeaders(script, sheet.headers, 1, NoColumns)
           chk == IF script = "REMODEL" THEN CheckColumnsRemodel(found) ELSE CheckColumns(found)
           names == {IndexName(r) : r \in found.set}
           file_col == found.idx["file"] + 1
           highest == CHOOSE m \in {found.idx[r] : r \in Roles} : \A r \in Roles : found.idx[r] <= m
           short == \E i \in 1..Len(sheet.data) : Len(sheet.data[i]) <= highest
           Noext(line) == <<line[found.idx["species"] + 1], line[found.idx["subspecies"] + 1],
                            StripExtensions(extensions, 1, line[file_col])>>
       IN  /\ column_index' = found.idx
           /\ stdout' = chk.stdout
           /\ IF script = "REMODEL"
              THEN \* os.mkdir(destiny_folder) comes before the sheet is opened
                   /\ outputs' = <<Written("directory",
                                           <<sample_name, "_valid_coverage_files_", type_of_organism>>)>>
                   /\ species_data_noext' = species_data_noext
                   /\ IF chk.error # NoError
                      THEN Die(chk.error) /\ bound' = {}
                      ELSE IF sheet.data = <<>>
                      THEN /\ bound' = {"header_indexes", "species_data"}
                           /\ pc' = "loop"
                           /\ UNCHANGED <<exit_code, error>>
                      ELSE \* the key of the dictionary is remove_extension_list(extensions, <str>):
                           \* a name with characters stops in the function, the empty name
                           \* gives a list, and the value is built before the key is hashed
                           /\ bound' = {"header_indexes"}
                           /\ Die(IF Len(sheet.data[1]) < file_col THEN Raised("IndexError", 229)
                                  ELSE IF sheet.data[1][file_col] # <<>> THEN Raised("IndexError", 136)
                                  ELSE IF Len(sheet.data[1]) <= found.idx["species"]
                                          \/ Len(sheet.data[1]) <= found.idx["subspecies"]
                                  THEN Raised("IndexError", 230)
                                  ELSE Raised("TypeError", 228))
              ELSE /\ outputs' = outputs
                   /\ IF chk.error # NoError
                      THEN Die(chk.error) /\ bound' = names /\ species_data_noext' = species_data_noext
                      ELSE IF short
                      THEN /\ Die(Raised("IndexError", 120))
                           /\ bound' = names
                           /\ species_data_noext' = species_data_noext
                      ELSE /\ species_data_noext' = [i \in 1..Len(sheet.data) |-> Noext(sheet.data[i])]
                           /\ bound' = names \cup {"species_data_noext", "data"}
                           /\ pc' = "loop"
                           /\ UNCHANGED <<exit_code, error>>
    /\ UNCHANGED <<script, sheet, argv, next_file, zero_coverage, match_name_coverage,
                   species, subspecies, spp, data, row_src, call, ret, table, da, report>>

\* graphs_coverage.py lines 140-275, one coverage file
PassGraphsCoverage(coverage_file) ==
    LET infiledata == coverage_file.rows
        scan == ZeroCoverageScan(infiledata)
        flag_bound == scan.assigned \/ "zero_coverage" \in bound
        flag == IF scan.assigned THEN scan.value ELSE zero_coverage
        id == MatchName(coverage_file.name)
        labels == Lookup(species_data_noext, 1, id, infiledata,
                         [assigned |-> "species" \in bound, species |-> species,
                          subspecies |-> subspecies, spp |-> spp, plots |-> <<>>,
                          error |-> NoError])
        groups == GroupBy(infiledata)
        acc == AppendGroups(groups, 1, next_file,
                            [data |-> data, row_src |-> row_src, outputs |-> outputs \o labels.plots,
                             species |-> labels.species, subspecies |-> labels.subspecies,
                             spp |-> labels.spp, error |-> NoError])
        first == weighted_avg_and_std(groups[1].df_grouped).error
    IN  /\ zero_coverage' = flag
        /\ IF ~flag_bound
           THEN \* line 158 reads a name that no file has assigned yet
                /\ Die(Raised("NameError", 158))
                /\ UNCHANGED <<next_file, bound, match_name_coverage, species, subspecies, spp,
                               data, row_src, outputs>>
           ELSE IF flag
           THEN /\ next_file' = next_file + 1
                /\ bound' = bound \cup {"zero_coverage"}
                /\ UNCHANGED <<pc, exit_code, error, match_name_coverage, species, subspecies,
                               spp, data, row_src, outputs>>
           ELSE /\ match_name_coverage' = id
                /\ species' = labels.species
                /\ subspecies' = labels.subspecies
                /\ spp' = labels.spp
                /\ IF labels.error # NoError
                   THEN \* line 224, at the first line of the sheet that matches
                        /\ Die(labels.error)
                        /\ bound' = bound \cup {"zero_coverage", "match_name_coverage", "species"}
                        /\ outputs' = outputs \o labels.plots
                        /\ next_file' = next_file
                        /\ UNCHANGED <<data, row_src>>
                   ELSE IF infiledata = <<>>
                   THEN \* no line of the sheet matches: pd.read_csv(header = None) of line
                        \* 229 finds no columns in a file without any line
                        /\ Die(Raised("EmptyDataError", 229))
                        /\ bound' = bound \cup {"zero_coverage", "match_name_coverage"}
                                           \cup (IF labels.assigned THEN {"species"} ELSE {})
                        /\ outputs' = outputs \o labels.plots
                        /\ next_file' = next_file
                        /\ UNCHANGED <<data, row_src>>
                   ELSE IF labels.assigned
                   THEN /\ bound' = bound \cup {"zero_coverage", "match_name_coverage", "species", "df"}
                        /\ \E done \in {acc} :
                              /\ data' = done.data
                              /\ row_src' = done.row_src
                              /\ outputs' = done.outputs
                              /\ IF done.error # NoError
                                 THEN \* line 240, in a group whose weights add up to zero
                                      /\ Die(done.error)
                                      /\ next_file' = next_file
                                 ELSE /\ next_file' = next_file + 1
                                      /\ UNCHANGED <<pc, exit_code, error>>
                   ELSE \* no line of the sheet has matched in this file or in an earlier one
                        /\ bound' = bound \cup {"zero_coverage", "match_name_coverage", "df"}
                        /\ outputs' = outputs
                        /\ next_file' = next_file
                        /\ IF first # NoError
                           THEN /\ Die(first)
                                /\ UNCHANGED <<data, row_src>>
                           ELSE IF groups[1].name = "genome"
                           THEN /\ Die(Raised("NameError", 246))
                                /\ UNCHANGED <<data, row_src>>
                           ELSE /\ Die(Raised("NameError", 251))
                                /\ data' = [data EXCEPT !["gnm"] = Append(@, <<groups[1].name>>)]
                                /\ row_src' = Append(row_src, [file |-> next_file, contig |-> groups[1].name])

\* graphs_coverage_REMODEL.py lines 235-306, one coverage file: int() of the selection
\* of line 249 is the covDepth of its single row, which the selection makes 0
PassRemodel(coverage_file) ==
    LET selection == SelectSeq(coverage_file.rows,
                               LAMBDA row : row.gnm = "genome" /\ row.covDepth = 0)
    IN  /\ IF Len(selection) = 1
           THEN /\ next_file' = next_file + 1
                /\ bound' = bound \cup {"df"}
                /\ UNCHANGED <<pc, exit_code, error>>
           ELSE /\ Die(Raised("TypeError", 249))
                /\ bound' = bound \cup {"df"}
                /\ next_file' = next_file
        /\ UNCHANGED <<zero_coverage, match_name_coverage, species, subspecies, spp, data,
                       row_src, outputs>>

ProcessFile ==
    /\ pc = "loop"
    /\ next_file <= Len(argv)
    /\ IF script = "REMODEL"
       THEN PassRemodel(argv[next_file])
       ELSE PassGraphsCoverage(argv[next_file])
    /\ UNCHANGED <<script, sheet, argv, column_index, species_data_noext, stdout, call, ret,
                   table, da, report>>

\* graphs_coverage.py lines 277-278; graphs_coverage_REMODEL.py lines 308-309
WriteTable ==
    /\ pc = "loop"
    /\ next_file > Len(argv)
    /\ IF \A c \in DOMAIN data : Len(data[c]) = Len(data["gnm"])
       THEN /\ pc' = "written"
            /\ exit_code' = 0
            /\ table' = TableOf(script, data)
            /\ outputs' = Append(outputs,
                                 Written("table", <<sample_name, "_", type_of_organism, "_table",
                                                    IF script = "REMODEL" THEN ".tsv" ELSE ".csv">>))
            /\ error' = error
       ELSE \* from_dict: "All arrays must be of the same length"
            /\ Die(Raised("ValueError", IF script = "REMODEL" THEN 308 ELSE 277))
            /\ UNCHANGED <<table, outputs>>
    /\ UNCHANGED <<script, sheet, argv, next_file, bound, column_index, species_data_noext,
                   zero_coverage, match_name_coverage, species, subspecies, spp, data, row_src,
                   stdout, call, ret, da, report>>

Next == Setup \/ ProcessFile \/ WriteTable

-----------------------------------------------------------------------------
(* Direct calls of the functions *)

Returned(fn, value) ==
    /\ pc = "call"
    /\ call.fn = "none"
    /\ call' = [call EXCEPT !.fn = fn]
    /\ ret' = value
    /\ UNCHANGED <<script, sheet, argv, pc, next_file, bound, column_index, species_data_noext,
                   zero_coverage, match_name_coverage, species, subspecies, spp, data, row_src,
                   outputs, stdout, exit_code, error, table, da, report>>

\* graphs_coverage.py lines 128-130, on the file name of one line of the sheet
CallStripExtensions == Returned("strip_extensions", StripExtensions(extensions, 1, call.arg))

\* graphs_coverage.py lines 161-163, on one coverage file name
CallMatchName == Returned("match_name_coverage", MatchName(call.arg))

\* graphs_coverage_REMODEL.py remove_extension(extensions, filename)
CallRemoveExtension == Returned("remove_extension", remove_extension(extensions, call.arg))

NextExt == CallStripExtensions \/ CallMatchName \/ CallRemoveExtension

\* a call that ends in an exception returns nothing
Threw(fn, err) ==
    /\ pc = "call"
    /\ call.fn = "none"
    /\ call' = [call EXCEPT !.fn = fn]
    /\ error' = err
    /\ UNCHANGED <<script, sheet, argv, pc, next_file, bound, column_index, species_data_noext,
                   zero_coverage, match_name_coverage, species, subspecies, spp, data, row_src,
                   outputs, stdout, exit_code, ret, table, da, report>>

\* weighted_avg_and_std(df_grouped, "covDepth", "FracOnThisDepth")
CallWeightedAvgAndStd ==
    LET result == weighted_avg_and_std(call.arg)
    IN  IF result.error # NoError
        THEN Threw("weighted_avg_and_std", result.error)
        ELSE Returned("weighted_avg_and_std", result.value)

\* calculate_weighted_median(df_grouped, "covDepth", "FracOnThisDepth")
CallWeightedMedian == Returned("calculate_weighted_median", calculate_weighted_median(call.arg))

NextStats == CallWeightedAvgAndStd \/ CallWeightedMedian

-----------------------------------------------------------------------------
(* Download_assemblies.py *)
(* A line of assembly_summary.txt is [len, c0, c4, c5, c6, c7, c8, c11, c17, c19]: its    *)
(* number of tab-separated fields and the columns the script reads. An accession is one  *)
(* token; the organism and infraspecific names and the ftp path are token sequences.     *)

\* lines 79-89
GroupsToDownload(group) ==
    CASE group = "all" -> <<"viral", "bacteria", "fungi">>
      [] group = "fungi" -> <<"fungi">>
      [] group = "bacteria" -> <<"bacteria">>
      [] group = "virus" -> <<"viral">>

\* line.startswith("#"): the first cell is a sequence of tokens, and a "#" that begins the
\* line is a token of its own
IsComment(line) == line.c0 # <<>> /\ line.c0[1] = "#"

\* Filtered without the tests of lines 110-111 and 114-115
Filtered_NoFlags(assembly_file, args) ==
    SelectSeq(SelectSeq(assembly_file, LAMBDA line : ~IsComment(line)), LAMBDA line : line.len = 23)

\* lines 103-115 (refseq) and 138-146 (genbank)
Filtered(assembly_file, args) ==
    LET assembly_data == SelectSeq(assembly_file, LAMBDA line : ~IsComment(line))
        with23 == SelectSeq(assembly_data, LAMBDA line : line.len = 23)
        complete == IF args.only_complete_genome
                    THEN SelectSeq(with23, LAMBDA line : line.c11 = "Complete Genome")
                    ELSE with23
    IN  IF args.onlyref
        THEN SelectSeq(complete, LAMBDA line : line.c4 = "reference genome")
        ELSE complete

\* [list(y) for y in set(...)]: the distinct lines, in any order
Orders(lines) ==
    LET S == Range(lines)
    IN  {o \in [1..Cardinality(S) -> S] : \A i \in DOMAIN o : \A j \in DOMAIN o : i # j => o[i] # o[j]}

\* lines 128 and 155: accession, taxid, species taxid, organism name, infraspecific
\* name, assembly level, ftp path
Columns(lines) ==
    [i \in 1..Len(lines) |->
        <<lines[i].c0, lines[i].c5, lines[i].c6, lines[i].c7, lines[i].c8, lines[i].c11, lines[i].c19>>]

\* ftp_path.split("/")[-1]
RECURSIVE LastSegment(_)
LastSegment(ftp_path) ==
    IF ftp_path = <<>> THEN <<>>
    ELSE IF ftp_path[Len(ftp_path)] = "/" THEN <<>>
    ELSE Append(LastSegment(SubSeq(ftp_path, 1, Len(ftp_path) - 1)), ftp_path[Len(ftp_path)])

\* lines 168-178: the download url and the file name are appended to each assembly
WithUrlAndName(final_assemblies) ==
    [i \in 1..Len(final_assemblies) |->
        LET single_assembly == final_assemblies[i]
            ftp_path == single_assembly[7]
            file_url == LastSegment(ftp_path)
        IN  single_assembly \o <<ftp_path \o <<"/">> \o file_url \o <<"_genomic.fna.gz">>,
                                 single_assembly[1] \o <<".fna", ".gz">> >>]

\* lines 193-194: the two header lines, as the coverage scripts read them
SheetHeaders(group) ==
    << <<IF group = "viral" THEN "# Assemblies chosen for the group viral "
         ELSE IF group = "bacteria" THEN "# Assemblies chosen for the group bacteria "
         ELSE "# Assemblies chosen for the group fungi ">>,
       <<"# Assembly_accession", "Species_taxid", "Subspecies_taxid", "Scientific_name",
         "Intraespecific_name", "Download_URL", "File_name", "Assembly_level">> >>

\* line 196: one line of the sheet, its cells as token sequences
SheetLine(col) ==
    <<col[1], <<col[3]>>, <<col[2]>>, col[4], col[5], col[8], col[9], <<col[6]>>>>

\* the file f"{destiny_folder}/{filename}"
Location(group, filename) == <<group, "_assemblies_for_pikavirus", "/">> \o filename

Said(text, what) == [text |-> text, what |-> what]

\* lines 225-236: the loop over final_assemblies, and the bare except that prints and
\* goes on. urlretrieve raises for the accessions of fails: for those of fails.open
\* before it has opened the file of destiny, for those of fails.cut after the transfer
\* has ended early, with the file of destiny written
RECURSIVE Retrieve(_, _, _, _, _)
Retrieve(final_assemblies, k, group, fails, acc) ==
    IF k > Len(final_assemblies) THEN acc
    ELSE LET col == final_assemblies[k]
             location_filename == Location(group, col[9])
         IN  Retrieve(final_assemblies, k + 1, group, fails,
                 IF location_filename \in acc.disk
                 THEN [acc EXCEPT !.stdout = Append(@, Said("already found on destiny file", col[9])),
                                  !.attempts = Append(@, [group |-> group, accession |-> col[1],
                                                          outcome |-> "found"])]
                 ELSE IF col[1] \in fails.open
                 THEN [acc EXCEPT !.stdout = Append(@, Said("could not be retrieved", col[1])),
                                  !.attempts = Append(@, [group |-> group, accession |-> col[1],
                                                          outcome |-> "failed"])]
                 ELSE IF col[1] \in fails.cut
                 THEN [acc EXCEPT !.disk = @ \cup {location_filename},
                                  !.stdout = Append(@, Said("could not be retrieved", col[1])),
                                  !.attempts = Append(@, [group |-> group, accession |-> col[1],
                                                          outcome |-> "failed"])]
                 ELSE [acc EXCEPT !.disk = @ \cup {location_filename},
                                  !.attempts = Append(@, [group |-> group, accession |-> col[1],
                                                          outcome |-> "retrieved"])])

DownloadVars == <<script, sheet, argv, next_file, column_index, species_data_noext,
                  zero_coverage, match_name_coverage, species, subspecies, spp, data, row_src,
                  outputs, call, ret, table, report>>

\* Download_assemblies.py lines 69-89
DAStart ==
    /\ script = "Download_assemblies"
    /\ pc = "da_start"
    /\ da' = [da EXCEPT !.groups_to_download = GroupsToDownload(da.args.group)]
    /\ bound' = bound \cup {"args", "groups_to_download"}
    /\ pc' = "da_select"
    /\ UNCHANGED <<stdout, exit_code, error>>
    /\ UNCHANGED DownloadVars

\* Download_assemblies.py lines 91-162, for one group: the summaries are read and
\* filtered and final_assemblies is assigned or, after line 131 has skipped GenBank
\* because line 95 took RefSeq, line 158 reads a name that was never assigned
DASelect ==
    /\ script = "Download_assemblies"
    /\ pc = "da_select"
    /\ LET args == da.args
       IN  IF args.database = "refseq" \/ args.database = "all"
           THEN \E filtered_assembly_data_refseq \in Orders(Filtered(da.remote.refseq, args)) :
                  LET assemblies_refseq == Columns(filtered_assembly_data_refseq)
                      genbank_in_refseq ==
                          IF args.database = "all"
                          THEN [i \in 1..Len(filtered_assembly_data_refseq) |->
                                   filtered_assembly_data_refseq[i].c17]
                          ELSE da.genbank_in_refseq
                      names == bound \cup {"assemblies_refseq", "assembly_refseq_quantity"}
                                     \cup (IF args.database = "all" THEN {"genbank_in_refseq"} ELSE {})
                  IN  /\ bound' = names
                      /\ IF args.database = "all" /\ "assemblies_genbank" \notin names
                         THEN /\ Die(Raised("NameError", 158))
                              /\ da' = [da EXCEPT !.assemblies_refseq = assemblies_refseq,
                                                   !.genbank_in_refseq = genbank_in_refseq]
                         ELSE /\ da' = [da EXCEPT !.assemblies_refseq = assemblies_refseq,
                                                   !.genbank_in_refseq = genbank_in_refseq,
                                                   !.final_assemblies =
                                                       IF args.database = "all"
                                                       THEN assemblies_refseq \o da.assemblies_genbank
                                                       ELSE assemblies_refseq]
                              /\ pc' = "da_sheet"
                              /\ UNCHANGED <<exit_code, error>>
           ELSE \* args.database is "genbank": the test of line 148 is never true here
                \E filtered_assembly_data_genbank \in Orders(Filtered(da.remote.genbank, args)) :
                  LET assemblies_genbank == Columns(filtered_assembly_data_genbank)
                  IN  /\ bound' = bound \cup {"assemblies_genbank", "assembly_genbank_quantity"}
                      /\ da' = [da EXCEPT !.assemblies_genbank = assemblies_genbank,
                                           !.final_assemblies = assemblies_genbank]
                      /\ pc' = "da_sheet"
                      /\ UNCHANGED <<exit_code, error>>
    /\ stdout' = stdout
    /\ UNCHANGED DownloadVars

\* Download_assemblies.py lines 168-198, for one group
DAWriteSheet ==
    /\ script = "Download_assemblies"
    /\ pc = "da_sheet"
    /\ LET group == da.groups_to_download[da.g]
           final_assemblies == WithUrlAndName(da.final_assemblies)
           tsv_file == <<group, "_assemblies", ".tsv">>
       IN  /\ da' = [da EXCEPT !.final_assemblies = final_assemblies,
                                \* the rows of final_assemblies are the list objects of the
                                \* list it was made from at lines 158-162: lines 173 and 178
                                \* append to them in place
                                !.assemblies_refseq = IF da.args.database \in {"all", "refseq"}
                                                      THEN WithUrlAndName(@) ELSE @,
                                !.assemblies_genbank = IF da.args.database \in {"all", "genbank"}
                                                       THEN WithUrlAndName(@) ELSE @,
                                !.sheets = Append(@, [group |-> group, name |-> tsv_file,
                                                      headers |-> SheetHeaders(group),
                                                      data |-> [i \in 1..Len(final_assemblies) |->
                                                                   SheetLine(final_assemblies[i])]])]
           /\ stdout' = Append(stdout, Said("created successfully!", tsv_file))
    /\ pc' = "da_download"
    /\ UNCHANGED <<bound, exit_code, error>>
    /\ UNCHANGED DownloadVars

\* Download_assemblies.py lines 200-238, for one group, and the step to the next group
DADownload ==
    /\ script = "Download_assemblies"
    /\ pc = "da_download"
    /\ LET group == da.groups_to_download[da.g]
           quantity == IF da.args.database = "genbank" THEN "assembly_genbank_quantity"
                       ELSE "assembly_refseq_quantity"
           after == Retrieve(da.final_assemblies, 1, group, da.fails,
                             [disk |-> da.disk, attempts |-> da.attempts,
                              stdout |-> Append(stdout, Said("Starting download", group))])
           more == da.g < Len(da.groups_to_download)
       IN  IF da.args.only_sheet
           THEN /\ da' = [da EXCEPT !.g = IF more THEN @ + 1 ELSE @]
                /\ pc' = IF more THEN "da_select" ELSE "da_done"
                /\ UNCHANGED <<stdout, exit_code, error>>
           ELSE IF (da.args.database = "all" /\ "assembly_genbank_quantity" \notin bound)
                   \/ quantity \notin bound
           THEN /\ Die(Raised("NameError", 207))
                /\ UNCHANGED <<da, stdout>>
           ELSE /\ da' = [da EXCEPT !.folders = @ \cup {group}, !.disk = after.disk,
                                     !.attempts = after.attempts,
                                     !.g = IF more THEN @ + 1 ELSE @]
                /\ stdout' = Append(after.stdout, Said("Download complete!", group))
                /\ pc' = IF more THEN "da_select" ELSE "da_done"
                /\ UNCHANGED <<exit_code, error>>
    /\ bound' = bound
    /\ UNCHANGED DownloadVars

\* Download_assemblies.py lines 240-241
DAExit ==
    /\ script = "Download_assemblies"
    /\ pc = "da_done"
    /\ stdout' = Append(stdout, Said("All done!", <<>>))
    /\ pc' = "exited"
    /\ exit_code' = 0
    /\ UNCHANGED <<da, bound, error>>
    /\ UNCHANGED DownloadVars

NextDownload == DAStart \/ DASelect \/ DAWriteSheet \/ DADownload \/ DAExit

-----------------------------------------------------------------------------
(* generate-html.py *)
(* A table file is [name, sep, rows]: the separator it was written with and its lines    *)
(* after the header, each the sequence of its cells: the index that to_csv writes, then  *)
(* the values of the columns. No cell holds a tab or a comma. NoTable is the default of  *)
(* -virus, -bacteria and -fungi.                                                         *)

NoTable == [name |-> "", sep |-> "", rows |-> <<>>]

ReportGroups == {"virus", "bacteria", "fungi"}

\* lines 153, 289 and 423
SeparatorOf(group) == IF group = "virus" THEN "\t" ELSE ","

\* line.replace("\n", "").split(sep): the cells, or the whole line as one cell when the
\* file was written with another separator
Split(line, written_with, sep) == IF written_with = sep THEN line ELSE <<line>>

\* line[6] == 0: the cell is a str and 0 is an int
EqualsInt(cell, n) == FALSE

\* "genome" in gnm
GenomeIn(gnm) == \E i \in 1..Len(gnm) : gnm[i] \in {"genome", "genome_1"}

\* the number of characters of the index cell
Digits(index) == IF index < 10 THEN 1 ELSE IF index < 100 THEN 2 ELSE 3

\* the line of generate-html.py that reads line[i] first, and the test of line[6]
LineOfRead(group, i) ==
    (CASE i = 1 -> 184 [] i = 2 -> 185 [] i = 3 -> 186 [] i = 4 -> 188 [] i = 5 -> 191
       [] i = 6 -> 194 [] i = 7 -> 195 [] i = 8 -> 196 [] i = 9 -> 198 [] i = 10 -> 201
       [] i = 11 -> 204 [] i = 12 -> 207 [] i = 13 -> 210 [] i = 14 -> 213 [] i = 15 -> 216)
    + (IF group = "virus" THEN 0 ELSE IF group = "bacteria" THEN 134 ELSE 268)

EmptyName(group) ==
    IF group = "virus" THEN "virus_empty"
    ELSE IF group = "bacteria" THEN "bacteria_empty" ELSE "fungi_empty"

LineOfTest(group) == IF group = "virus" THEN 158 ELSE IF group = "bacteria" THEN 295 ELSE 430

\* lines 264-267: the dictionary keeps the order in which its keys were added
AddSequence(sequences, assembly, file_data) ==
    IF \E i \in 1..Len(sequences) : sequences[i].assembly = assembly
    THEN [i \in 1..Len(sequences) |->
             IF sequences[i].assembly = assembly
             THEN [sequences[i] EXCEPT !.data = Append(@, file_data)]
             ELSE sequences[i]]
    ELSE Append(sequences, [assembly |-> assembly, data |-> <<file_data>>])

\* lines 155-267 (virus), 293-401 (bacteria), 428-535 (fungi): the loop over the lines
\* of the table; parsed = [empty, empty_lines, whole_genomes_data, sequences, error]
RECURSIVE ParseLines(_, _, _, _)
ParseLines(group, infile, k, parsed) ==
    IF k > Len(infile) THEN parsed
    ELSE LET line == infile[k]
         IN  IF Len(line) < 7
             THEN [parsed EXCEPT !.error = Raised("IndexError", LineOfTest(group))]
             ELSE IF EqualsInt(line[7], 0)
             THEN ParseLines(group, infile, k + 1, [parsed EXCEPT !.empty_lines = @ + 1])
             ELSE IF parsed.empty_lines = Len(infile)
             THEN [parsed EXCEPT !.empty = TRUE]
             ELSE IF Len(line) < 16
             THEN [parsed EXCEPT !.error = Raised("IndexError", LineOfRead(group, Len(line)))]
             ELSE LET file_data == [assembly |-> line[16], gnm |-> line[2], species |-> line[3],
                                    subspecies |-> line[4], minimal |-> line[7],
                                    maximum |-> line[8]]
                  IN  ParseLines(group, infile, k + 1,
                          [parsed EXCEPT
                              !.whole_genomes_data = IF GenomeIn(line[2]) THEN Append(@, file_data)
                                                     ELSE @,
                              !.sequences = AddSequence(@, line[16], file_data)])

\* lines 137-272 (virus), 276-406 (bacteria), 409-540 (fungi): the table of one group
ParseGroup(group, then) ==
    LET file == report.args[group]
        infile == [k \in 1..Len(file.rows) |-> Split(file.rows[k], file.sep, SeparatorOf(group))]
        parsed == ParseLines(group, infile, 1,
                             [empty |-> FALSE, empty_lines |-> 0, whole_genomes_data |-> <<>>,
                              sequences |-> <<>>, error |-> NoError])
        \* lines 405-406 and 539-540 read line[0][1] and line[0][2]
        index == infile[Len(infile)][1]
        after == IF group = "virus" \/ parsed.sequences = <<>> \/ Digits(index) >= 3 THEN NoError
                 ELSE Raised("IndexError", (IF group = "bacteria" THEN 404 ELSE 538) + Digits(index))
        names == {"coverage_analysis", EmptyName(group)}
    IN  IF file.name = ""
        THEN pc' = then /\ UNCHANGED <<report, bound, exit_code, error>>
        ELSE IF file.name = "not_found.tsv"
        THEN /\ report' = [report EXCEPT !.coverage_analysis = TRUE, !.empty[group] = TRUE]
             /\ bound' = bound \cup names
             /\ pc' = then
             /\ UNCHANGED <<exit_code, error>>
        ELSE /\ report' = [report EXCEPT !.coverage_analysis = TRUE,
                                         !.empty[group] = parsed.empty,
                                         !.whole_genomes_data[group] = parsed.whole_genomes_data,
                                         !.sequences[group] = parsed.sequences]
             /\ bound' = bound \cup names
             /\ IF parsed.error # NoError THEN Die(parsed.error)
                ELSE IF after # NoError THEN Die(after)
                ELSE pc' = then /\ UNCHANGED <<exit_code, error>>

ReportVars == <<script, sheet, argv, next_file, column_index, species_data_noext,
                zero_coverage, match_name_coverage, species, subspecies, spp, data, row_src,
                outputs, stdout, call, ret, table, da>>

\* generate-html.py lines 137-272
GHVirus ==
    /\ script = "generate-html"
    /\ pc = "gh_virus"
    /\ ParseGroup("virus", "gh_bacteria")
    /\ UNCHANGED ReportVars

\* generate-html.py lines 276-406
GHBacteria ==
    /\ script = "generate-html"
    /\ pc = "gh_bacteria"
    /\ ParseGroup("bacteria", "gh_fungi")
    /\ UNCHANGED ReportVars

\* generate-html.py lines 409-540
GHFungi ==
    /\ script = "generate-html"
    /\ pc = "gh_fungi"
    /\ ParseGroup("fungi", "gh_write")
    /\ UNCHANGED ReportVars

\* lines 600-611, 622-633, 644-655: the entries of the dropdown of one group
NavigationOf(group) ==
    IF report.args[group].name = "" \/ report.empty[group] THEN <<>>
    ELSE [k \in 1..Len(report.whole_genomes_data[group]) |->
             LET item == report.whole_genomes_data[group][k]
             IN  [href |-> item.assembly,
                  text |-> IF item.subspecies = <<"--">> THEN SafeName(item.species)
                           ELSE item.species \o <<" ">> \o item.subspecies]]

\* what the name item is bound to: nothing, a file_data of 26 entries, or the list of
\* the n file_data of one assembly
NoItem == [kind |-> "unbound", n |-> 0]
FileData == [kind |-> "file_data", n |-> 26]
ListOf(rows) == [kind |-> "list", n |-> Len(rows)]

\* the group has a table and is not flagged empty: its entries and its tables are written
InBody(group) == report.args[group].name # "" /\ ~report.empty[group]

\* lines 589-658: the loops of the navigation bind item
RECURSIVE ItemAfterNavigation(_, _)
ItemAfterNavigation(groups, item) ==
    IF groups = <<>> THEN item
    ELSE ItemAfterNavigation(Tail(groups),
             IF InBody(groups[1]) /\ report.whole_genomes_data[groups[1]] # <<>> THEN FileData
             ELSE item)

\* lines 1368-1390: the entries of item that the table of the fungi genomes reads, in
\* the order it reads them, each with its line
FungiReads ==
    << <<0, 1368>>, <<1, 1369>>, <<4, 1371>>, <<6, 1371>>, <<5, 1372>>, <<7, 1372>>,
       <<8, 1374>>, <<9, 1375>>, <<10, 1377>>, <<11, 1379>>, <<12, 1380>>, <<13, 1382>>,
       <<14, 1383>>, <<15, 1385>>, <<16, 1386>>, <<17, 1388>>, <<18, 1389>>, <<19, 1390>> >>

\* the first of these reads that is out of range for an item of n entries
FirstOutOfRange(n) ==
    LET out == {k \in 1..Len(FungiReads) : FungiReads[k][1] >= n}
    IN  IF out = {} THEN NoError
        ELSE Raised("IndexError", FungiReads[CHOOSE k \in out : \A j \in out : k <= j][2])

Last(s) == s[Len(s)]

\* lines 866-1101: the tables of the virus; names = [item, true_over, error], where
\* true_over says that true_over_10, true_over_25 and true_over_75 are bound
VirusSection(names) ==
    IF ~InBody("virus") \/ report.sequences["virus"] = <<>> THEN names
    ELSE [names EXCEPT !.item = ListOf(Last(report.sequences["virus"]).data),
                       !.true_over = TRUE]

\* lines 1105-1328: the rows of the genomes bind the three names, the rows of the
\* sequences (lines 1264-1304) read them and do not bind them
BacteriaSection(names) ==
    IF ~InBody("bacteria") \/ report.sequences["bacteria"] = <<>> \/ names.error # NoError
    THEN names
    ELSE IF report.whole_genomes_data["bacteria"] = <<>> /\ ~names.true_over
    THEN [names EXCEPT !.item = ListOf(report.sequences["bacteria"][1].data),
                       !.error = Raised("NameError", 1297)]
    ELSE [names EXCEPT !.item = ListOf(Last(report.sequences["bacteria"]).data),
                       !.true_over = TRUE]

\* lines 1330-1542: the loop of line 1366 binds data and its body reads item; neither
\* this loop nor the rows of the sequences (lines 1480-1519) bind the three names
FungiSection(names) ==
    IF ~InBody("fungi") \/ report.sequences["fungi"] = <<>> \/ names.error # NoError
    THEN names
    ELSE IF report.whole_genomes_data["fungi"] # <<>> /\ names.item.kind = "unbound"
    THEN [names EXCEPT !.error = Raised("NameError", 1368)]
    ELSE IF /\ report.whole_genomes_data["fungi"] # <<>>
            /\ names.item.kind = "list"
            /\ FirstOutOfRange(names.item.n) # NoError
    THEN [names EXCEPT !.error = FirstOutOfRange(names.item.n)]
    ELSE IF report.whole_genomes_data["fungi"] # <<>> /\ ~names.true_over
    THEN [names EXCEPT !.error = Raised("NameError", 1400)]
    ELSE IF ~names.true_over
    THEN [names EXCEPT !.item = ListOf(report.sequences["fungi"][1].data),
                       !.error = Raised("NameError", 1512)]
    ELSE [names EXCEPT !.item = ListOf(Last(report.sequences["fungi"]).data)]

\* generate-html.py lines 542-1564: the results file; of what it writes, the entries of
\* the navigation are kept. An exception in the body leaves the file with what was
\* written before it. No sequencing control is given (-control)
GHWrite ==
    /\ script = "generate-html"
    /\ pc = "gh_write"
    /\ LET start == [item |-> ItemAfterNavigation(<<"virus", "bacteria", "fungi">>, NoItem),
                     true_over |-> FALSE, error |-> NoError]
           names == IF report.coverage_analysis
                    THEN FungiSection(BacteriaSection(VirusSection(start)))
                    ELSE [item |-> NoItem, true_over |-> FALSE, error |-> NoError]
       IN  /\ report' = [report EXCEPT !.navigation =
                             [group \in ReportGroups |->
                                 IF report.coverage_analysis THEN NavigationOf(group) ELSE <<>>]]
           /\ bound' = bound \cup (IF names.item.kind = "unbound" THEN {} ELSE {"item"})
                             \cup (IF names.true_over THEN {"true_over_10"} ELSE {})
           /\ IF names.error # NoError THEN Die(names.error)
              ELSE pc' = "written" /\ exit_code' = 0 /\ error' = error
    /\ UNCHANGED ReportVars

NextReport == GHVirus \/ GHBacteria \/ GHFungi \/ GHWrite

-----------------------------------------------------------------------------
(* Inputs of the runs *)

Scripts == {"graphs_coverage", "REMODEL"}

\* the header Download_assemblies.py writes, cut to four columns, and two sheets that
\* lack a role
HeadersGood ==
    << <<"# Assemblies chosen">>,
       <<"# Assembly_accession", "Scientific_name", "Intraespecific_name", "File_name">> >>
HeadersNoSubspecies == << <<"# Assembly_accession", "Species", "Taxid", "FILE">> >>
HeadersNoFile == << <<"# Assembly_accession", "organism", "STRAIN", "Taxid">> >>

\* data lines: accession, species, subspecies, file name
LineA == << <<"GCF_1">>, <<"Sp", " ", "A">>, <<"st1">>, <<"abc", ".fna", ".gz">> >>
LineB == << <<"GCF_2">>, <<"Sp", " ", "B">>, <<>>, <<"xyz", ".gz">> >>
LineC == << <<"GCA_3">>, <<"Sp", " ", "C">>, <<"st", "/", "3">>, <<"abc", ".gz">> >>

DataLines == {<<>>, <<LineA>>, <<LineB>>, <<LineA, LineB>>, <<LineC, LineA>>}

Sheet(headers, lines) == [headers |-> headers, data |-> lines]

\* coverage file names: <ref>_vs_<sample>
CoverageNames ==
    { <<"abc", ".fna", ".gz", "_vs_", "S1", ".sam">>,
      <<"xyz", "_vs_", "S1">>,
      <<"nomatch", ".fna", "_vs_", "S1", ".sam">> }

Row(gnm, depth, frac) == [gnm |-> gnm, covDepth |-> depth, frac |-> frac]

\* histograms: the contigs first and the "genome" rows last, as bedtools genomecov
\* writes them; zero: every base of the file is at depth 0
GenomeRows(kind) ==
    CASE kind = "zero" -> <<Row("genome", 0, FracDen)>>
      [] kind = "covered" -> <<Row("genome", 0, 4), Row("genome", 10, 6)>>
      [] kind = "none" -> <<>>

ContigRows(contig, kind) ==
    IF kind = "zero" THEN <<Row(contig, 0, FracDen)>>
    ELSE IF contig = "seq1" THEN <<Row("seq1", 0, 4), Row("seq1", 10, 6)>>
    ELSE <<Row(contig, 1, 2), Row(contig, 50, 3), Row(contig, 120, 5)>>

Histograms ==
    {ContigRows("seq1", kind) \o GenomeRows(kind) : kind \in {"zero", "covered"}}
    \cup {ContigRows("seq1", kind) \o ContigRows("NC_1", kind) \o GenomeRows(kind) :
             kind \in {"zero", "covered"}}
    \cup {GenomeRows("covered"), ContigRows("seq1", "none")}

CoverageFiles == {[name |-> n, rows |-> r] : n \in CoverageNames, r \in Histograms}

\* histograms that end the run at the statistics: a file without any line, and a
\* "genome" group and a contig group whose fractions are all 0.0
Unweighted(gnm) == <<Row(gnm, 0, 0), Row(gnm, 7, 0)>>

UnreadHistograms ==
    {<<>>, Unweighted("genome"), Unweighted("seq1") \o GenomeRows("covered")}

UnreadFiles == {[name |-> n, rows |-> r] : n \in CoverageNames, r \in UnreadHistograms}

\* one of these files, alone or after a file that is read to its end
UnreadArgvs ==
    {<<f>> : f \in UnreadFiles}
    \cup {<<g, f>> : g \in {[name |-> n, rows |-> GenomeRows(kind)] :
                                n \in CoverageNames, kind \in {"zero", "covered"}},
                     f \in UnreadFiles}

\* the command lines of Spec: graphs_coverage.py on a sheet with the three roles and up
\* to MaxFiles coverage files, or with a file that ends the run at the statistics;
\* either script on any sheet with at most one coverage file
RunInputs ==
    {[script |-> "graphs_coverage", sheet |-> Sheet(HeadersGood, d), argv |-> a] :
        d \in DataLines, a \in SeqsUpTo(CoverageFiles, MaxFiles) \cup UnreadArgvs}
    \cup
    {[script |-> "REMODEL", sheet |-> Sheet(HeadersGood, <<>>), argv |-> <<f>>] :
        f \in UnreadFiles}
    \cup
    {[script |-> scr, sheet |-> Sheet(h, d), argv |-> a] :
        scr \in Scripts, h \in {HeadersGood, HeadersNoSubspecies, HeadersNoFile},
        d \in DataLines, a \in SeqsUpTo(CoverageFiles, 1)}

Init == InitRun(RunInputs)

Spec == Init /\ [][Next]_vars

\* the command lines of SpecPaths: graphs_coverage.py on a sheet with two assemblies of
\* the same species and subspecies, and up to MaxFiles coverage files of different names
LineD == << <<"GCF_4">>, <<"Sp", " ", "A">>, <<"st1">>, <<"xyz", ".fna">> >>

PathInputs ==
    {[script |-> "graphs_coverage", sheet |-> Sheet(HeadersGood, <<LineA, LineD>>), argv |-> a] :
        a \in {b \in SeqsUpTo(CoverageFiles, MaxFiles) :
                  \A i \in 1..Len(b) : \A j \in 1..Len(b) : i # j => b[i].name # b[j].name}}

InitPaths == InitRun(PathInputs)

SpecPaths == InitPaths /\ [][Next]_vars

\* lines of assembly_summary.txt: the number of fields, then the accession, the
\* bioproject, the refseq category, the organism and infraspecific names, the assembly
\* level and the paired accession
SummaryLine(n, accession, bioproject, category, organism, infra, level, paired) ==
    [len |-> n, c0 |-> accession, c1 |-> bioproject, c4 |-> category, c5 |-> "11", c6 |-> "10",
     c7 |-> organism, c8 |-> infra, c11 |-> level, c17 |-> paired,
     c19 |-> <<"ftp:", "/", "genomes", "/">> \o accession \o <<"_ASM">>]

CommentLine ==
    SummaryLine(23, <<"#", " assembly_accession">>, "bioproject", "refseq_category",
                <<"organism_name">>, <<"infraspecific_name">>, "assembly_level",
                <<"gbrs_paired_asm">>)

\* a line of 23 fields that begins with "#" and is not the header
HashLine ==
    SummaryLine(23, <<"#", "GCF_8">>, "PRJNA8", "reference genome", <<"Sp", " ", "H">>, <<>>,
                "Complete Genome", <<"na">>)

LineGCF1 ==
    SummaryLine(23, <<"GCF_1">>, "PRJNA1", "reference genome", <<"Sp", " ", "A">>, <<"st1">>,
                "Complete Genome", <<"GCA_1">>)
LineGCF1Again ==
    SummaryLine(23, <<"GCF_1">>, "PRJNA7", "reference genome", <<"Sp", " ", "A">>, <<"st1">>,
                "Complete Genome", <<"GCA_1">>)
LineGCF2 ==
    SummaryLine(23, <<"GCF_2">>, "PRJNA2", "na", <<"Sp", " ", "B">>, <<>>, "Complete Genome", <<"na">>)
LineGCA1 ==
    SummaryLine(23, <<"GCA_1">>, "PRJNA1", "reference genome", <<"Sp", " ", "A">>, <<"st1">>,
                "Complete Genome", <<"GCF_1">>)
LineGCA6 ==
    SummaryLine(23, <<"GCA_6">>, "PRJNA6", "na", <<"Sp", " ", "F">>, <<>>, "Complete Genome", <<"na">>)

RefseqLines ==
    { LineGCF1, LineGCF1Again, LineGCF2,
      SummaryLine(23, <<"GCF_3">>, "PRJNA3", "reference genome", <<"Sp", " ", "C">>, <<>>,
                  "Scaffold", <<"GCA_3">>),
      SummaryLine(22, <<"GCF_4">>, "PRJNA4", "reference genome", <<"Sp", " ", "D">>, <<>>,
                  "Complete Genome", <<"na">>),
      CommentLine, HashLine }

GenbankLines ==
    { LineGCA1, LineGCA6,
      SummaryLine(23, <<"GCA_5">>, "PRJNA5", "na", <<"Sp", " ", "E">>, <<"st5">>, "Contig", <<"na">>),
      SummaryLine(22, <<"GCA_7">>, "PRJNA8", "na", <<"Sp", " ", "G">>, <<>>, "Complete Genome",
                  <<"na">>),
      CommentLine, HashLine }

Arguments(group, database, onlyref, only_sheet, only_complete_genome) ==
    [group |-> group, database |-> database, onlyref |-> onlyref, only_sheet |-> only_sheet,
     only_complete_genome |-> only_complete_genome]

\* the accessions whose urlretrieve raises, before the file of destiny is opened or
\* after the transfer has ended early, and the files a former run has left
NoFailure == [open |-> {}, cut |-> {}]
Failing ==
    { NoFailure,
      [open |-> {<<"GCF_1">>, <<"GCA_1">>}, cut |-> {}],
      [open |-> {<<"GCF_2">>, <<"GCA_6">>}, cut |-> {}],
      [open |-> {}, cut |-> {<<"GCF_1">>, <<"GCA_1">>}],
      [open |-> {<<"GCF_2">>}, cut |-> {<<"GCF_1">>, <<"GCF_2">>, <<"GCA_6">>}] }
Left == {{}, {Location("viral", <<"GCF_2", ".fna", ".gz">>),
              Location("viral", <<"GCA_6", ".fna", ".gz">>)}}

\* the runs of Download_assemblies.py: one database with every summary of at most
\* MaxLines lines and every choice of the three flags; both databases; every choice of
\* the groups with retrievals that fail and files that are there
DownloadInputs ==
    {[args |-> Arguments("virus", "refseq", r, s, c),
      remote |-> [refseq |-> lines, genbank |-> <<>>], fails |-> f, disk |-> {}] :
        r \in BOOLEAN, s \in BOOLEAN, c \in BOOLEAN, lines \in SeqsUpTo(RefseqLines, MaxLines),
        f \in {NoFailure}}
    \cup
    {[args |-> Arguments("virus", "genbank", r, s, c),
      remote |-> [refseq |-> <<>>, genbank |-> lines], fails |-> f, disk |-> {}] :
        r \in BOOLEAN, s \in BOOLEAN, c \in BOOLEAN, lines \in SeqsUpTo(GenbankLines, MaxLines),
        f \in {NoFailure}}
    \cup
    {[args |-> Arguments(g, "all", FALSE, s, FALSE),
      remote |-> [refseq |-> r, genbank |-> b], fails |-> NoFailure, disk |-> {}] :
        g \in {"virus", "all"}, s \in BOOLEAN, r \in SeqsUpTo(RefseqLines, 1),
        b \in SeqsUpTo(GenbankLines, 1)}
    \cup
    {[args |-> Arguments(g, d, FALSE, s, FALSE),
      remote |-> [refseq |-> lines, genbank |-> <<LineGCA1, LineGCA6>>], fails |-> f, disk |-> l] :
        g \in {"virus", "bacteria", "fungi", "all"}, d \in {"refseq", "genbank"}, s \in BOOLEAN,
        f \in Failing, l \in Left,
        lines \in {<<LineGCF1, LineGCF2>>, <<LineGCF1, LineGCF1Again>>}}

InitDownloadOf(inputs) ==
    /\ script = "Download_assemblies"
    /\ sheet = Sheet(<<>>, <<>>)
    /\ argv = <<>>
    /\ pc = "da_start"
    /\ data = <<>>
    /\ call = NoCall
    /\ \E in \in inputs :
          da = [args |-> in.args, remote |-> in.remote, fails |-> in.fails,
                groups_to_download |-> <<>>, g |-> 1, assemblies_refseq |-> <<>>,
                assemblies_genbank |-> <<>>, genbank_in_refseq |-> <<>>,
                final_assemblies |-> <<>>, sheets |-> <<>>, disk |-> in.disk,
                left |-> in.disk, folders |-> {path[1] : path \in in.disk},
                attempts |-> <<>>]
    /\ report = <<>>
    /\ Fresh
    /\ bound = {}

InitDownload == InitDownloadOf(DownloadInputs)

SpecDownload == InitDownload /\ [][NextDownload]_vars

\* the coverage files of a sheet: for each of its lines, a covered histogram of the
\* file that line names
CoverageFilesOf(written) ==
    {[name |-> written.data[i][7] \o <<"_vs_", "S1", ".sam">>,
      rows |-> ContigRows("seq1", "covered") \o GenomeRows("covered")] :
        i \in 1..Len(written.data)}

\* a coverage script is started on a sheet that Download_assemblies.py has written,
\* with at most one coverage file
StartCoverage ==
    /\ script = "Download_assemblies"
    /\ pc = "exited"
    /\ exit_code = 0
    /\ \E scr \in Scripts : \E k \in 1..Len(da.sheets) :
          \E a \in SeqsUpTo(CoverageFilesOf(da.sheets[k]), 1) :
             /\ script' = scr
             /\ sheet' = Sheet(da.sheets[k].headers, da.sheets[k].data)
             /\ argv' = a
             /\ data' = EmptyData(scr)
    /\ pc' = "start"
    /\ bound' = {}
    /\ stdout' = <<>>
    /\ exit_code' = -1
    /\ UNCHANGED <<next_file, column_index, species_data_noext, zero_coverage,
                   match_name_coverage, species, subspecies, spp, row_src, outputs, error, call,
                   ret, table, da, report>>

\* the runs of SpecSheet: Download_assemblies.py --only_sheet on one group and one
\* database, then a coverage script on the sheet
SheetInputs ==
    {[args |-> Arguments("virus", "refseq", FALSE, TRUE, FALSE),
      remote |-> [refseq |-> lines, genbank |-> <<>>], fails |-> NoFailure, disk |-> {}] :
        lines \in SeqsUpTo(RefseqLines, MaxLines)}
    \cup
    {[args |-> Arguments("virus", "genbank", FALSE, TRUE, FALSE),
      remote |-> [refseq |-> <<>>, genbank |-> lines], fails |-> NoFailure, disk |-> {}] :
        lines \in SeqsUpTo(GenbankLines, MaxLines)}

InitSheet == InitDownloadOf(SheetInputs)

NextSheet == NextDownload \/ StartCoverage \/ Setup \/ ProcessFile \/ WriteTable

SpecSheet == InitSheet /\ [][NextSheet]_vars

\* the table file that a coverage script writes: to_csv puts the index before the
\* values of each row; graphs_coverage_REMODEL.py writes with sep="\t"
FileOf(scr, written) ==
    [name |-> "table", sep |-> IF scr = "REMODEL" THEN "\t" ELSE ",",
     rows |-> [k \in 1..Len(written.rows) |-> <<k - 1>> \o written.rows[k]]]

\* the tables of graphs_coverage.py for one coverage file with a genome row, with and
\* without a contig row (the rows come in the order of the groups, "genome" before
\* "seq1"), and the table of graphs_coverage_REMODEL.py, which has no row
CoverageTables ==
    LET sp == <<"Sp", " ", "A">>
        label == SppOf(sp, <<"st1">>)
        genome == RowOf("genome", GenomeRows("covered"), sp, <<"st1">>, label)
        contig == RowOf("seq1", ContigRows("seq1", "covered"), sp, <<"st1">>, label)
        empty == EmptyData("graphs_coverage")
    IN  { FileOf("graphs_coverage", TableOf("graphs_coverage", AppendRow(empty, genome))),
          FileOf("graphs_coverage",
                 TableOf("graphs_coverage", AppendRow(AppendRow(empty, genome), contig))),
          FileOf("REMODEL", TableOf("REMODEL", EmptyData("REMODEL"))) }

\* rows with the fifteen columns that generate-html.py reads: gnm, species, subspecies,
\* the mean, the deviation, the minimal, maximal and median depth, six fractions, assembly
ReportRow(gnm, sp, sub, minimal, maximum, assembly) ==
    <<gnm, sp, sub, <<maximum, 1>>, [root |-> 1, q |-> <<0, 1>>], minimal, maximum, maximum,
      <<1, 1>>, <<1, 1>>, <<1, 1>>, <<1, 1>>, <<1, 1>>, <<1, 1>>, assembly>>

\* the genome and a contig of one assembly, the only contig of another, and a genome
\* with no coverage
RowGenome ==
    ReportRow(<<"Sp", " ", "A", " ", "st1", " ", "genome">>, <<"Sp", " ", "A">>, <<"st1">>,
              0, 10, <<"GCF_1">>)
RowSeq1 == ReportRow(<<"seq1">>, <<"Sp", " ", "A">>, <<"st1">>, 0, 10, <<"GCF_1">>)
RowContig == ReportRow(<<"NC_1">>, <<"Sp", " ", "B">>, <<"--">>, 1, 120, <<"GCF_2">>)
RowZero == ReportRow(<<"Sp", " ", "C", " ", "genome">>, <<"Sp", " ", "C">>, <<"--">>, 0, 0, <<"GCF_3">>)

ReportRows == {RowGenome, RowSeq1, RowContig, RowZero}

NotFound == [name |-> "not_found.tsv", sep |-> "\t", rows |-> <<>>]

\* the lines of a table from the one with index first on
TableFrom(first, sep, rows) ==
    [name |-> "table", sep |-> sep, rows |-> [k \in 1..Len(rows) |-> <<first + k - 1>> \o rows[k]]]

ReportTables ==
    {TableFrom(first, sep, rows) :
        first \in {0, 10, 100}, sep \in {"\t", ","}, rows \in SeqsUpTo(ReportRows, MaxTableRows)}

\* tables of each kind of row, for the runs with more than one group
FewTables(sep) ==
    {NoTable, NotFound} \cup {TableFrom(100, sep, rows) :
                                 rows \in {<<RowGenome>>, <<RowContig>>, <<RowGenome, RowSeq1>>,
                                           <<RowContig, RowGenome>>}}

\* the command lines of generate-html.py: one group with any table and the other two
\* with no table or no result; every group with one of a few tables
ReportInputs ==
    {[virus |-> v, bacteria |-> b, fungi |-> f] :
        v \in FewTables("\t"), b \in FewTables(","), f \in FewTables(",")}
    \cup
    {[virus |-> t, bacteria |-> o, fungi |-> o] :
        t \in ReportTables \cup CoverageTables \cup {NotFound}, o \in {NoTable, NotFound}}
    \cup
    {[virus |-> o, bacteria |-> t, fungi |-> o] :
        t \in ReportTables \cup CoverageTables \cup {NotFound}, o \in {NoTable, NotFound}}
    \cup
    {[virus |-> o, bacteria |-> o, fungi |-> t] :
        t \in ReportTables \cup CoverageTables \cup {NotFound}, o \in {NoTable, NotFound}}

\* generate-html.py lines 70-73
InitReport ==
    /\ script = "generate-html"
    /\ sheet = Sheet(<<>>, <<>>)
    /\ argv = <<>>
    /\ pc = "gh_virus"
    /\ data = <<>>
    /\ call = NoCall
    /\ da = <<>>
    /\ \E args \in ReportInputs :
          report = [args |-> args, coverage_analysis |-> FALSE,
                    empty |-> [group \in ReportGroups |-> FALSE],
                    whole_genomes_data |-> [group \in ReportGroups |-> <<>>],
                    sequences |-> [group \in ReportGroups |-> <<>>],
                    navigation |-> [group \in ReportGroups |-> <<>>]]
    /\ Fresh
    /\ bound = {"coverage_analysis"}

SpecReport == InitReport /\ [][NextReport]_vars


\* the sheets of SpecHeaders: a header line of a '#' item and up to MaxItems column
\* names, alone, after a comment line, or before a second header line of one column
HeaderItems == {"File_name", "Species", "STRAIN", "organism", "Taxid"}
FirstItems == {"# Assembly_accession", "#File_name"}

HeaderLines(n) == {<<f>> \o rest : f \in FirstItems, rest \in SeqsUpTo(HeaderItems, n)}

HeaderSets ==
    {<<h>> : h \in HeaderLines(MaxItems)}
    \cup {<< <<"# Assemblies chosen">>, h >> : h \in HeaderLines(MaxItems)}
    \cup {<< h, <<"#File_name", x>> >> : h \in HeaderLines(MaxItems), x \in HeaderItems}

\* a data line with one cell per column of the longest header line
Cells == <<"c0", "c1", "c2", "c3", "c4", "c5", "c6", "c7">>
CellLine(headers) ==
    LET width == CHOOSE n \in {Len(headers[h]) : h \in 1..Len(headers)} :
                     \A h \in 1..Len(headers) : Len(headers[h]) <= n
    IN  [p \in 1..width |-> <<Cells[p]>>]

ZeroCoverageFile ==
    [name |-> <<"abc", ".fna", "_vs_", "S1", ".sam">>,
     rows |-> ContigRows("seq1", "zero") \o GenomeRows("zero")]

HeaderInputs ==
    {[script |-> scr,
      sheet |-> Sheet(hs, IF scr = "REMODEL" THEN <<>> ELSE <<CellLine(hs)>>),
      argv |-> <<ZeroCoverageFile>>] : scr \in Scripts, hs \in HeaderSets}

InitHeaders == InitRun(HeaderInputs)

SpecHeaders == InitHeaders /\ [][Next]_vars

\* the file names of SpecExt: "abc" and up to MaxTokens - 1 more tokens, ".sam" only
\* after "_vs_"
NameTokens == {"abc", ".fna", ".gz", "_vs_", ".sam"}

FileNames ==
    {n \in SeqsUpTo(NameTokens, MaxTokens) \ {<<>>} :
        /\ n[1] = "abc"
        /\ \A i \in 1..Len(n) : n[i] = ".sam" => \E j \in 1..(i - 1) : n[j] = "_vs_"}

InitExt == InitCall(FileNames)

SpecExt == InitExt /\ [][NextExt]_vars

\* the contig groups of SpecStats: up to MaxRows rows of one contig, in any order,
\* at distinct depths
GroupDepths == {0, 1, 2, 3, 10}
GroupFracs == {3, 4, 5}

\* groups whose weights do not add up exactly in floating point: 0.3 + 0.1 + 0.2 is
\* above 0.6, and its half is above 0.3
RoundedGroups ==
    { <<Row("seq1", 0, 3), Row("seq1", 1, 1), Row("seq1", 2, 2)>>,
      <<Row("seq1", 10, 3), Row("seq1", 0, 1), Row("seq1", 5, 2)>> }

\* groups whose weights add up to zero
UnweightedGroups == {<<Row("seq1", 0, 0)>>, Unweighted("seq1")}

Groups ==
    {g \in SeqsUpTo({Row("seq1", d, f) : d \in GroupDepths, f \in GroupFracs}, MaxRows) \ {<<>>} :
        \A i \in 1..Len(g) : \A j \in 1..Len(g) : i # j => g[i].covDepth # g[j].covDepth}
    \cup RoundedGroups \cup UnweightedGroups

InitStats == InitCall(Groups)

SpecStats == InitStats /\ [][NextStats]_vars

\* the histograms of SpecThresh: a "genome" depth-0 row, then up to MaxFreeRows rows of
\* two contigs at depths on and between the thresholds
ThresholdDepths == {0, 1, 10, 50, 75, 100}
ThresholdFracs == {1, 2}

ThresholdInputs ==
    {[script |-> "graphs_coverage",
      sheet |-> Sheet(HeadersGood, <<LineA>>),
      argv |-> <<[name |-> <<"abc", ".fna", ".gz", "_vs_", "S1", ".sam">>,
                  rows |-> <<Row("genome", 0, 5)>> \o free]>>] :
        free \in SeqsUpTo({Row(g, d, f) : g \in {"genome", "seq1"}, d \in ThresholdDepths,
                                          f \in ThresholdFracs}, MaxFreeRows)}

InitThresh == InitRun(ThresholdInputs)

SpecThresh == InitThresh /\ [][Next]_vars

-----------------------------------------------------------------------------
(* What the specification says of a run, stated on the inputs *)

\* the file name with ".gz" and ".fna" removed
IdOfFileName(name) == SelectSeq(name, LAMBDA t : t \notin {".gz", ".fna"})

\* the part of a coverage file name before "_vs_", with ".gz" and ".fna" removed
IdOfCoverageName(name) ==
    LET cut == IF \E i \in 1..Len(name) : name[i] = "_vs_"
               THEN (CHOOSE i \in 1..Len(name) : name[i] = "_vs_" /\ \A j \in 1..(i - 1) : name[j] # "_vs_")
               ELSE Len(name) + 1
    IN  IdOfFileName(SubSeq(name, 1, cut - 1))

\* the reference records of the sheets of the model: columns 2, 3 and 4 of a data line
RecordOf(line) ==
    [assembly_id |-> IdOfFileName(line[4]), species |-> line[2],
     subspecies |-> IF line[3] = <<>> THEN <<"--">> ELSE line[3]]

ReferenceIndex == {RecordOf(sheet.data[i]) : i \in 1..Len(sheet.data)}

HasEntry(f) == \E rec \in ReferenceIndex : rec.assembly_id = IdOfCoverageName(f.name)

\* the row of contig "genome" at depth 0 holds the whole of the bases
IsZeroCoverage(f) ==
    \E i \in 1..Len(f.rows) :
        f.rows[i].gnm = "genome" /\ f.rows[i].covDepth = 0 /\ f.rows[i].frac = FracDen

HasGenomeDepth0(f) ==
    \E i \in 1..Len(f.rows) : f.rows[i].gnm = "genome" /\ f.rows[i].covDepth = 0

ContigsOf(f) == {f.rows[i].gnm : i \in 1..Len(f.rows)}

\* the entries of the accumulator that come from the i-th coverage file
RowsFrom(i) == {k \in 1..Len(row_src) : row_src[k].file = i}

\* a role is resolved by the sheet when some item of some header line is one of its names
RolePresent(role) ==
    \E h \in 1..Len(sheet.headers) : \E p \in 1..Len(sheet.headers[h]) :
        Lower(sheet.headers[h][p]) \in Synonyms(role)

\* the run ended in the header check (graphs_coverage.py 109-118, REMODEL 91-110)
HeaderFailure == error.kind # "none" /\ error.line \in 91..118

-----------------------------------------------------------------------------
(* C1 *)

\* C1: a coverage file whose ("genome", depth 0) row has fraction 1.0 contributes no row
\* to the accumulator, whatever files come before or after it in the run.
C1_ZeroCoverageExcluded ==
    \A i \in 1..Len(argv) : IsZeroCoverage(argv[i]) => RowsFrom(i) = {}

\* a finished run in which a zero-coverage file with a reference entry came after a
\* file that contributed rows
C1_Witness ==
    /\ pc = "written"
    /\ \E i \in 1..Len(argv) : \E j \in 1..Len(argv) :
          /\ i < j
          /\ RowsFrom(i) # {}
          /\ IsZeroCoverage(argv[j])
          /\ HasEntry(argv[j])

-----------------------------------------------------------------------------
(* C2 *)

\* C2: a coverage file whose derived id has no entry in the reference index contributes
\* no row and does not stop the run, and every other file of the run that has an entry
\* and is not zero-coverage has its rows in the table that is written.
C2_JoinFailureRecoverable ==
    \A i \in 1..Len(argv) :
        (/\ script = "graphs_coverage"
         /\ \A r \in Roles : RolePresent(r)
         /\ HasGenomeDepth0(argv[i])
         /\ ~IsZeroCoverage(argv[i])
         /\ ~HasEntry(argv[i]))
        => /\ RowsFrom(i) = {}
           /\ ~(pc = "exited" /\ next_file = i)
           /\ (pc = "written" =>
                 \A j \in 1..Len(argv) :
                     (HasEntry(argv[j]) /\ ~IsZeroCoverage(argv[j])) => RowsFrom(j) # {})

-----------------------------------------------------------------------------
(* C3 *)

\* C3: when a column role is unresolved the run stops with exit code 1 before any
\* coverage file is processed, having written no table, no file and no directory.
C3_HeaderFailureFatal ==
    (pc # "start" /\ \E r \in Roles : ~RolePresent(r))
    => /\ pc = "exited"
       /\ exit_code = 1
       /\ next_file = 1
       /\ "df" \notin bound
       /\ outputs = <<>>

-----------------------------------------------------------------------------
(* C4 *)

\* C4: when, over all the header lines and without regard to case, every role has a
\* column whose name is one of the role's synonyms, the header check does not end the
\* run and each role's index is the position, in its header line, of such a column.
C4_HeadersResolved ==
    (pc # "start" /\ \A r \in Roles : RolePresent(r))
    => /\ ~HeaderFailure
       /\ \A r \in Roles :
             \E h \in 1..Len(sheet.headers) : \E p \in 1..Len(sheet.headers[h]) :
                 /\ Lower(sheet.headers[h][p]) \in Synonyms(r)
                 /\ column_index[r] = p - 1

\* the roles found in two different header lines, one of them in the last column, in a
\* run that went on to the loop
C4_Witness ==
    /\ pc = "loop"
    /\ Len(sheet.headers) = 2
    /\ \A r \in Roles : RolePresent(r)
    /\ column_index["file"] = MaxItems
    /\ ~(\E h \in 1..Len(sheet.headers) : \A r \in Roles :
            \E p \in 1..Len(sheet.headers[h]) : Lower(sheet.headers[h][p]) \in Synonyms(r))

-----------------------------------------------------------------------------
(* C5 *)

\* a file the run keeps: its reference entry exists and it is not zero-coverage
Retained(f) == HasEntry(f) /\ HasGenomeDepth0(f) /\ ~IsZeroCoverage(f)

\* C5: a retained file whose histogram has exactly two contig names, one of them
\* "genome", has exactly one row in the written table, and it is not the "genome" row.
C5_CollapseRule ==
    pc = "written" =>
        \A i \in 1..Len(argv) :
            (/\ Retained(argv[i])
             /\ Cardinality(ContigsOf(argv[i])) = 2
             /\ "genome" \in ContigsOf(argv[i]))
            => /\ Cardinality(RowsFrom(i)) = 1
               /\ \A k \in RowsFrom(i) : row_src[k].contig # "genome"

-----------------------------------------------------------------------------
(* C7 *)

\* the entries of the accumulator that have all their columns
FullRows == {k \in 1..Len(row_src) : \A c \in DOMAIN data : k <= Len(data[c])}

\* C7: the id derived from a coverage file name (of the file of the last row, or of the
\* file in which the run ended after lines 161-163, the call of weighted_avg_and_std of
\* line 240 included) is the part before "_vs_" without the extensions, and when a
\* reference record has that id every row of the file carries the species and the
\* subspecies of a record with that id.
C7_RowsCarryReferenceLabels ==
    /\ LET latest == IF /\ script = "graphs_coverage" /\ pc = "exited"
                         /\ (error.line > 163 \/ error.line \in 66..70)
                      THEN next_file
                      ELSE IF row_src # <<>> THEN row_src[Len(row_src)].file ELSE 0
       IN  latest # 0 => match_name_coverage = IdOfCoverageName(argv[latest].name)
    /\ \A k \in FullRows :
          LET f == argv[row_src[k].file]
          IN  HasEntry(f) =>
                 \E rec \in ReferenceIndex :
                     /\ rec.assembly_id = IdOfCoverageName(f.name)
                     /\ data["species"][k] = rec.species
                     /\ data["subspecies"][k] = rec.subspecies

\* the second file of a finished run matched a record other than the first file's, by a
\* name that carries extensions on one side only
C7_Witness ==
    /\ pc = "written"
    /\ Len(argv) = 2
    /\ RowsFrom(1) # {}
    /\ \E k \in RowsFrom(2) \cap FullRows :
          /\ data["species"][k] # data["species"][1]
          /\ data["subspecies"][k] = <<"--">>
          /\ \E i \in 1..Len(sheet.data) :
                /\ RecordOf(sheet.data[i]).assembly_id = IdOfCoverageName(argv[2].name)
                /\ RecordOf(sheet.data[i]).assembly_id # sheet.data[i][4]

-----------------------------------------------------------------------------
(* C6 *)

\* C6: the id of a file name is the name without ".gz" and without ".fna", for the file
\* names of the sheet and, before "_vs_", for the coverage file names; "abc.fna.gz" and
\* "abc.gz" both give "abc".
C6_ExtensionStripping ==
    /\ call.fn \in {"strip_extensions", "remove_extension"} =>
          /\ ret = IdOfFileName(call.arg)
          /\ call.arg \in {<<"abc", ".fna", ".gz">>, <<"abc", ".gz">>} => ret = <<"abc">>
    /\ call.fn = "match_name_coverage" => ret = IdOfCoverageName(call.arg)

-----------------------------------------------------------------------------
(* C8 *)

RECURSIVE SumFrac(_, _)
SumFrac(rows, idx) ==
    IF idx = {} THEN 0
    ELSE LET i == CHOOSE i \in idx : TRUE IN rows[i].frac + SumFrac(rows, idx \ {i})

AllRows(rows) == 1..Len(rows)

\* the least depth at which the weight of the rows up to that depth is at least half of
\* the weight of the group
MedianByDepth(rows) ==
    LET HalfAt(d) == 2 * SumFrac(rows, {i \in AllRows(rows) : rows[i].covDepth <= d})
                        >= SumFrac(rows, AllRows(rows))
        depths == {rows[i].covDepth : i \in AllRows(rows)}
    IN  CHOOSE d \in depths : HalfAt(d) /\ \A e \in depths : HalfAt(e) => d <= e

\* C8: the median of a group is the depth of the first row, in ascending depth order
\* whatever the order of the rows in the file, at which the running sum of the
\* fractions reaches half of their total; rows (1,0.3),(2,0.3),(3,0.4) give 2.
C8_WeightedMedian ==
    call.fn = "calculate_weighted_median" => ret = MedianByDepth(call.arg)

-----------------------------------------------------------------------------
(* C9 *)

\* sum of covDepth * frac over the rows
RECURSIVE SumDepthFrac(_, _)
SumDepthFrac(rows, idx) ==
    IF idx = {} THEN 0
    ELSE LET i == CHOOSE i \in idx : TRUE
         IN  rows[i].covDepth * rows[i].frac + SumDepthFrac(rows, idx \ {i})

\* sum of frac * (covDepth * W - S)^2 over the rows: W^3 times the weighted variance
RECURSIVE SumSquares(_, _, _, _)
SumSquares(rows, idx, W, S) ==
    IF idx = {} THEN 0
    ELSE LET i == CHOOSE i \in idx : TRUE
             dev == rows[i].covDepth * W - S
         IN  rows[i].frac * dev * dev + SumSquares(rows, idx \ {i}, W, S)

\* C9: mean = sum(depth * fraction) / sum(fraction), with the actual sum of the
\* fractions, and sd is the square root of the mean of (depth - mean)^2 under the same
\* weights; rows (0,0.5),(10,0.5) give mean 5 and sd 5.
C9_WeightedMeanAndSD ==
    (call.fn = "weighted_avg_and_std" /\ SumFrac(call.arg, AllRows(call.arg)) # 0) =>
        LET rows == call.arg
            W == SumFrac(rows, AllRows(rows))
            S == SumDepthFrac(rows, AllRows(rows))
            variance == Q(SumSquares(rows, AllRows(rows), W, S), W * W * W)
            sd == ret[2]
        IN  /\ ret[1] = Q(S, W)
            /\ sd.root = 1 => <<sd.q[1] * sd.q[1], sd.q[2] * sd.q[2]>> = variance
            /\ sd.root = 2 =>
                  /\ sd.q = variance
                  /\ \/ ~\E b \in 1..sd.q[2] : b * b = sd.q[2]
                     \/ ~\E a \in 0..sd.q[1] : a * a = sd.q[1]
            /\ rows = <<Row("seq1", 0, 5), Row("seq1", 10, 5)>> =>
                  ret = <<<<5, 1>>, [root |-> 1, q |-> <<5, 1>>]>>

\* a group whose fractions sum to 0.8, not to 1: rows (0,0.4),(10,0.4) have mean 5, sd 5
C9_Witness ==
    /\ call = [fn |-> "weighted_avg_and_std", arg |-> <<Row("seq1", 0, 4), Row("seq1", 10, 4)>>]
    /\ ret = <<<<5, 1>>, [root |-> 1, q |-> <<5, 1>>]>>

-----------------------------------------------------------------------------
(* C10 *)

ThresholdOf(column) ==
    CASE column = ">=x1" -> 1
      [] column = ">=x10" -> 10
      [] column = ">=x25" -> 25
      [] column = ">=x50" -> 50
      [] column = ">=x75" -> 75
      [] column = ">=x100" -> 100

ThresholdColumns == {">=x1", ">=x10", ">=x25", ">=x50", ">=x75", ">=x100"}

\* C10: in every row and for every threshold column ">=xT" of the table, the value is the
\* sum of the fractions of the rows of the file that belong to the row's contig and
\* have depth >= T.
C10_ThresholdFractions ==
    \A k \in FullRows : \A c \in ThresholdColumns \cap DOMAIN data :
        LET rows == argv[row_src[k].file].rows
        IN  data[c][k] =
               Q(SumFrac(rows, {i \in AllRows(rows) :
                                   /\ rows[i].gnm = row_src[k].contig
                                   /\ rows[i].covDepth >= ThresholdOf(c)}), FracDen)

\* a written row of contig "seq1" with rows at depths 50 and 100 exactly, in a file that
\* has rows of the "genome" contig too
C10_Witness ==
    /\ pc = "written"
    /\ \E k \in FullRows :
          LET rows == argv[row_src[k].file].rows
          IN  /\ row_src[k].contig = "seq1"
              /\ \E i \in AllRows(rows) : rows[i].gnm = "seq1" /\ rows[i].covDepth = 50
              /\ \E i \in AllRows(rows) : rows[i].gnm = "seq1" /\ rows[i].covDepth = 100
              /\ \E i \in AllRows(rows) : rows[i].gnm = "genome"
              /\ data[">=x50"][k] # data[">=x100"][k]

-----------------------------------------------------------------------------
(* C11 *)

\* a <= b for two rationals with positive denominators
AtMost(a, b) == a[1] * b[2] <= b[1] * a[2]

\* C11: in every row of the table, the fraction at a higher threshold is at most the
\* fraction at a lower one: >=x1 >= >=x10 >= >=x25 >= >=x50 >= >=x75 >= >=x100, over the
\* threshold columns the table has.
C11_ThresholdMonotone ==
    \A k \in FullRows : \A lower \in ThresholdColumns \cap DOMAIN data :
        \A higher \in ThresholdColumns \cap DOMAIN data :
            ThresholdOf(lower) <= ThresholdOf(higher) => AtMost(data[higher][k], data[lower][k])

\* a written row whose three fractions differ: rows of its contig lie between the
\* thresholds 1 and 50 and between 50 and 100
C11_Witness ==
    /\ pc = "written"
    /\ \E k \in FullRows :
          /\ data[">=x1"][k] # data[">=x50"][k]
          /\ data[">=x50"][k] # data[">=x100"][k]

-----------------------------------------------------------------------------
(* C12 *)

\* C12: in every row of the table covMin <= covMedian <= covMax, whatever the order of
\* the rows of the contig in the file.
C12_MedianBetweenMinAndMax ==
    \A k \in FullRows :
        /\ data["covMin"][k] <= data["covMedian"][k]
        /\ data["covMedian"][k] <= data["covMax"][k]

\* a written row of a contig whose rows are not in ascending depth order in the file
C12_Witness ==
    /\ pc = "written"
    /\ \E k \in FullRows :
          LET rows == argv[row_src[k].file].rows
          IN  /\ data["covMin"][k] < data["covMax"][k]
              /\ \E i \in AllRows(rows) : \E j \in AllRows(rows) :
                    /\ i < j
                    /\ rows[i].gnm = row_src[k].contig
                    /\ rows[j].gnm = row_src[k].contig
                    /\ rows[i].covDepth > rows[j].covDepth

-----------------------------------------------------------------------------
(* C13 *)

\* the position in file f of the first row of a contig
FirstRowOf(f, contig) ==
    CHOOSE i \in AllRows(f.rows) :
        f.rows[i].gnm = contig /\ \A j \in 1..(i - 1) : f.rows[j].gnm # contig

\* C13: the rows of the table are in the order of the input files and, within one file,
\* in the order in which the contigs first appear in the file, not in the order of
\* their names.
C13_RowOrder ==
    \A k1 \in 1..Len(row_src) : \A k2 \in 1..Len(row_src) :
        k1 < k2 =>
            \/ row_src[k1].file < row_src[k2].file
            \/ /\ row_src[k1].file = row_src[k2].file
               /\ FirstRowOf(argv[row_src[k1].file], row_src[k1].contig)
                     < FirstRowOf(argv[row_src[k2].file], row_src[k2].contig)

-----------------------------------------------------------------------------
(* C14 *)

ColumnOrderOfSpec ==
    <<"gnm", "species", "subspecies", "covMean", "covSD", "covMedian", "covMin", "covMax",
      ">=x1", ">=x10", ">=x25", ">=x50", ">=x75", ">=x100", "assembly">>

\* C14: the columns of the table that is written are, in this order, gnm, species,
\* subspecies, covMean, covSD, covMedian, covMin, covMax, >=x1, >=x10, >=x25, >=x50,
\* >=x75, >=x100, assembly (those of them the script has).
C14_ColumnOrder ==
    table # <<>> =>
        table.columns = SelectSeq(ColumnOrderOfSpec, LAMBDA c : c \in ColumnsOf(script))

-----------------------------------------------------------------------------
(* C15 *)

\* the rows of the table that come from the i-th coverage file, column by column
RowsOfFile(i) ==
    LET idx == SelectSeq([k \in 1..Len(row_src) |-> k],
                         LAMBDA k : row_src[k].file = i /\ k \in FullRows)
    IN  [c \in DOMAIN data |-> [n \in 1..Len(idx) |-> data[c][idx[n]]]]

\* the rows the script emits for a coverage file when no file was processed before it
RowsAlone(cf) ==
    LET scan == ZeroCoverageScan(cf.rows)
        labels == Lookup(species_data_noext, 1, MatchName(cf.name), cf.rows,
                         [assigned |-> FALSE, species |-> <<>>, subspecies |-> <<>>,
                          spp |-> <<>>, plots |-> <<>>, error |-> NoError])
        acc == AppendGroups(GroupBy(cf.rows), 1, 1,
                            [data |-> EmptyData(script), row_src |-> <<>>, outputs |-> <<>>,
                             species |-> labels.species, subspecies |-> labels.subspecies,
                             spp |-> labels.spp, error |-> NoError])
    IN  IF script = "REMODEL" \/ ~scan.assigned \/ scan.value \/ ~labels.assigned
        THEN EmptyData(script)
        ELSE acc.data

\* C15: the rows emitted for a coverage file are those its name, its contents and the
\* reference index give, whichever files were processed before it: no species,
\* subspecies or zero-coverage decision comes from an earlier file.
C15_PerFileIndependence ==
    \A i \in 1..Len(argv) :
        (pc \in {"loop", "written"} /\ i < next_file) => RowsOfFile(i) = RowsAlone(argv[i])

-----------------------------------------------------------------------------
(* C16 *)

\* C16: a row labelled from a reference record whose subspecies field is empty has
\* subspecies "--", and a row labelled from a record with a subspecies has that
\* subspecies unchanged. (The data lines of the sheets have distinct species, so the
\* species of a row tells which line labelled it.)
C16_EmptySubspeciesSentinel ==
    \A k \in FullRows : \A i \in 1..Len(sheet.data) :
        (column_index = [file |-> 3, species |-> 1, subspecies |-> 2]
         /\ data["species"][k] = sheet.data[i][2])
        => /\ sheet.data[i][3] = <<>> => data["subspecies"][k] = <<"--">>
           /\ sheet.data[i][3] # <<>> => data["subspecies"][k] = sheet.data[i][3]

\* a written table with a row from a record without subspecies and a row from a record
\* with one
C16_Witness ==
    /\ pc = "written"
    /\ \E k1 \in FullRows : \E k2 \in FullRows : \E i \in 1..Len(sheet.data) :
          /\ data["species"][k1] = sheet.data[i][2]
          /\ sheet.data[i][3] = <<>>
          /\ data["subspecies"][k1] = <<"--">>
          /\ data["subspecies"][k2] # <<"--">>

-----------------------------------------------------------------------------
(* C17 *)

\* C17: a run ends with exit code 1 when a column role of the sheet is unresolved and
\* with exit code 0 in every other case, runs with skipped coverage files included.
C17_ExitCode ==
    pc \in {"written", "exited"} =>
        exit_code = IF \E r \in Roles : ~RolePresent(r) THEN 1 ELSE 0

-----------------------------------------------------------------------------
(* C18 *)

\* C18: when header resolution fails, what the run prints names every unresolved role
\* and no resolved one, and gives for each unresolved role the accepted names.
C18_ErrorMessage ==
    (pc = "exited" /\ \E r \in Roles : ~RolePresent(r)) =>
        \A r \in Roles :
            /\ ~RolePresent(r) <=> \E n \in 1..Len(stdout) : stdout[n].role = RoleTitle(r)
            /\ ~RolePresent(r) =>
                  \E n \in 1..Len(stdout) :
                      stdout[n].role = RoleTitle(r) /\ stdout[n].valid = Synonyms(r)

-----------------------------------------------------------------------------
(* C20 *)

\* C20: when the run ends, for every coverage file that has no row in the table there
\* is a printed record that identifies the file.
C20_SkipsLogged ==
    pc = "written" =>
        \A i \in 1..Len(argv) :
            RowsFrom(i) = {} =>
                \E n \in 1..Len(stdout) :
                    "file" \in DOMAIN stdout[n] /\ stdout[n].file = argv[i].name

-----------------------------------------------------------------------------
(* C21 *)

\* the line plots written so far; the k-th one is that of the k-th row of the table
LinePlotsWritten == SelectSeq(outputs, LAMBDA w : w.kind = "lineplot")

\* C21: two different (coverage file, contig) pairs of a run never write the same plot
\* path; in particular the "genome" plots of two assemblies of the same species and
\* subspecies have different paths.
C21_UniqueWriteTargets ==
    \A k1 \in 1..Len(LinePlotsWritten) : \A k2 \in 1..Len(LinePlotsWritten) :
        (k1 # k2 /\ row_src[k1] # row_src[k2]) => LinePlotsWritten[k1] # LinePlotsWritten[k2]

-----------------------------------------------------------------------------
(* C22 *)

\* C22: no row of the table is computed from a contig group whose fractions do not sum
\* to 1.
C22_MalformedGroupNotEmitted ==
    \A k \in FullRows :
        LET rows == argv[row_src[k].file].rows
        IN  SumFrac(rows, {i \in AllRows(rows) : rows[i].gnm = row_src[k].contig}) = FracDen

-----------------------------------------------------------------------------
(* C23 *)

\* C23: a coverage file with a matching reference record whose ("genome", depth 0) row
\* has a fraction below 1, or that has no such row, is not skipped: the run goes past it
\* and it has at least one row in the table.
C23_OnlyZeroCoverageExcluded ==
    \A i \in 1..Len(argv) :
        (/\ script = "graphs_coverage"
         /\ \A r \in Roles : RolePresent(r)
         /\ HasEntry(argv[i])
         /\ ~IsZeroCoverage(argv[i]))
        => /\ ~(pc = "exited" /\ next_file = i)
           /\ i < next_file => RowsFrom(i) # {}

-----------------------------------------------------------------------------
(* C30 *)

\* C30: after every iteration of the loop over the coverage files, and when the table
\* is written, the lists of the accumulator have the same length, the rows come from
\* pairwise different (file, contig) pairs, and a file that has rows has one row for
\* each of its contigs.
C30_AccumulatorAligned ==
    pc \in {"loop", "written"} =>
        /\ \A c \in DOMAIN data : Len(data[c]) = Len(row_src)
        /\ \A k1 \in 1..Len(row_src) : \A k2 \in 1..Len(row_src) :
              k1 # k2 => row_src[k1] # row_src[k2]
        /\ \A i \in 1..Len(argv) :
              RowsFrom(i) # {} => {row_src[k].contig : k \in RowsFrom(i)} = ContigsOf(argv[i])
        /\ pc = "written" => Len(table.rows) = Len(row_src)

\* a written table with the rows of two coverage files, one of them with three contigs
C30_Witness ==
    /\ pc = "written"
    /\ RowsFrom(1) # {}
    /\ RowsFrom(2) # {}
    /\ \E i \in 1..Len(argv) : Cardinality(RowsFrom(i)) = 3
    /\ \A c \in DOMAIN data : Len(data[c]) = Len(row_src)

-----------------------------------------------------------------------------
(* Download_assemblies.py: the final list, the download loop and the sheet *)

\* the distinct lines of a summary that have 23 fields and pass the active filters
Chosen(assembly_file, args) ==
    {line \in Range(assembly_file) :
        /\ ~IsComment(line)
        /\ line.len = 23
        /\ args.only_complete_genome => line.c11 = "Complete Genome"
        /\ args.onlyref => line.c4 = "reference genome"}

Arrangements(S) ==
    {o \in [1..Cardinality(S) -> S] : \A i \in DOMAIN o : \A j \in DOMAIN o : i # j => o[i] # o[j]}

\* the line of the sheet for a line of the summary
SheetRowOf(line) == SheetLine(WithUrlAndName(Columns(<<line>>))[1])

\* C24: with -database all the final list of a group is the RefSeq assemblies followed
\* by the GenBank assemblies that are not paired with a selected RefSeq assembly, and
\* the run gets to the writing of the sheet without an error; with refseq or genbank
\* the list is the assemblies of that database
C24_FinalAssemblies ==
    script = "Download_assemblies"
    => /\ error = NoError
       /\ pc = "da_sheet"
          => LET args == da.args
                 refseq == IF args.database = "genbank" THEN {} ELSE Chosen(da.remote.refseq, args)
                 paired == {line.c17 : line \in refseq}
                 genbank == IF args.database = "refseq" THEN {}
                            ELSE {line \in Chosen(da.remote.genbank, args) :
                                     args.database = "all" => line.c0 \notin paired}
             IN  \E r \in Arrangements(refseq) : \E b \in Arrangements(genbank) :
                    da.final_assemblies = Columns(r) \o Columns(b)

\* the group of da.sheets[k] is past line 238
Downloaded(k) == k < da.g \/ pc = "da_done" \/ pc = "exited"

AttemptsOn(group) == SelectSeq(da.attempts, LAMBDA a : a.group = group)

\* what the loop has to do with line i of a sheet: nothing but a message when the file
\* is there, because it was left or an earlier line of the list has brought it
OutcomeOf(written, i) ==
    LET accession == written.data[i][1]
        there == \/ Location(written.group, written.data[i][7]) \in da.left
                 \/ \E j \in 1..(i - 1) : /\ written.data[j][1] = accession
                                          /\ accession \notin da.fails.open
    IN  IF there THEN "found"
        ELSE IF accession \in da.fails.open \cup da.fails.cut THEN "failed" ELSE "retrieved"

\* C26: without --only_sheet every assembly of the final list of a group is considered
\* once and in the order of the list, a file that is there is not retrieved again, a
\* retrieval that fails stops neither the rest of the list nor the later groups; with
\* --only_sheet nothing is retrieved and the sheets are written
C26_DownloadLoop ==
    script = "Download_assemblies"
    => /\ \A k \in 1..Len(da.sheets) :
             Downloaded(k)
             => LET written == da.sheets[k]
                IN  IF da.args.only_sheet
                    THEN da.attempts = <<>> /\ da.disk = da.left
                    ELSE AttemptsOn(written.group) =
                             [i \in 1..Len(written.data) |->
                                 [group |-> written.group, accession |-> written.data[i][1],
                                  outcome |-> OutcomeOf(written, i)]]
       /\ pc = "exited"
          => /\ exit_code = 0
             /\ [k \in 1..Len(da.sheets) |-> da.sheets[k].group] = da.groups_to_download

\* C27: the sheet of a group has one line for each distinct line of the summary that
\* has 23 fields and passes every active filter, and no other line
C27_SheetLines ==
    script = "Download_assemblies"
    => \A k \in 1..Len(da.sheets) :
          LET chosen == Chosen(IF da.args.database = "genbank" THEN da.remote.genbank
                               ELSE da.remote.refseq, da.args)
          IN  \E o \in Arrangements(chosen) :
                 da.sheets[k].data = [i \in 1..Cardinality(chosen) |-> SheetRowOf(o[i])]

C27_Witness ==
    /\ script = "Download_assemblies"
    /\ da.args.onlyref /\ da.args.only_complete_genome
    /\ Len(da.remote.refseq) = 2
    /\ \E i \in 1..2 : /\ da.remote.refseq[i].len = 23
                        /\ da.remote.refseq[i].c4 = "reference genome"
                        /\ da.remote.refseq[i].c11 # "Complete Genome"
    /\ Len(da.sheets) = 1
    /\ Len(da.sheets[1].data) = 1

\* C25: a coverage script accepts the sheet that Download_assemblies.py has written: the
\* three roles resolve and, for every line, the species, the subspecies and the file
\* without its extensions are the organism name, the infraspecific name and the
\* accession of that assembly
C25_SheetAccepted ==
    (script \in Scripts /\ da # <<>> /\ pc # "start")
    => /\ \A r \in Roles : RolePresent(r)
       /\ column_index = [file |-> 6, species |-> 3, subspecies |-> 4]
       /\ species_data_noext =
              [i \in 1..Len(da.final_assemblies) |->
                  <<da.final_assemblies[i][4], da.final_assemblies[i][5],
                    da.final_assemblies[i][1]>>]

-----------------------------------------------------------------------------
(* generate-html.py: the empty flag and the navigation *)

\* the lines of the table of a group that have the fifteen columns
RowsRead(group) ==
    {report.args[group].rows[k] : k \in {j \in 1..Len(report.args[group].rows) :
                                            Len(report.args[group].rows[j]) = 16}}

Given(group) == report.args[group].name # ""

\* C28: a group is flagged empty when its table is "not_found.tsv" or when every row
\* of its table has depth zero, and not empty when a row has coverage; the entries of
\* the navigation are written for the groups that are not empty only
C28_EmptyFlag ==
    (script = "generate-html" /\ pc = "written")
    => \A group \in ReportGroups :
          Given(group)
          => LET file == report.args[group]
             IN  /\ file.name = "not_found.tsv" => report.empty[group]
                 /\ (/\ file.name = "table"
                     /\ file.rows # <<>>
                     /\ \A row \in RowsRead(group) : row[8] = 0
                     /\ RowsRead(group) = Range(file.rows))
                    => report.empty[group]
                 /\ (file.name = "table" /\ \E row \in RowsRead(group) : row[8] > 0)
                    => ~report.empty[group]
                 /\ report.navigation[group] # <<>> => ~report.empty[group]

\* C29: every assembly with a row in the table of a group has one entry in the
\* navigation of that group, the assemblies without a "genome" row too
C29_NavigationComplete ==
    (script = "generate-html" /\ pc = "written")
    => \A group \in ReportGroups :
          (Given(group) /\ report.args[group].name = "table")
          => \A row \in RowsRead(group) :
                Cardinality({k \in 1..Len(report.navigation[group]) :
                                report.navigation[group][k].href = row[16]}) = 1

====
